---- MODULE Spec2Model ----
(***************************************************************************)
(* A model of the sway-screenshot daemon: the mutex-guarded Shared State   *)
(* (internal/state), the recording and screenshot handlers                 *)
(* (internal/commands), the recorder processes they launch and the         *)
(* background watcher that reaps them.                                     *)
(***************************************************************************)
EXTENDS Integers, Sequences, FiniteSets, TLC

\* ------------------------------------------------------------------ bounds
MaxConn == 2      \* connections handled concurrently
MaxRec == 2       \* recorder processes launched in one run
MaxDelay == 2     \* largest delay (seconds) a request carries
MaxClock == 2     \* seconds the wall clock advances in the state-level runs
MaxOps == 2       \* calls each goroutine makes in the lock-level runs
MaxGo == 3        \* goroutines calling into the Shared State at once

Conns == 1..MaxConn
Goroutines == 1..MaxGo
Pids == 1..MaxRec

\* time.Time{} (the zero time) ; the wall clock starts after it
ZeroTime == 0

VARIABLES
    \* internal/state.State
    recording, paused, recordingFile, recordingPID, recordingStartTime,
    obsRecording, obsPaused, countdownRemaining, icons,
    \* wall clock (seconds)
    clock,
    \* filesystem: the cache file's content, raw and converted recordings
    cacheFile, aviFiles, mp4Files,
    \* recorder processes and their watcher goroutines
    proc, watcher, procPaused,
    \* one handler goroutine per connection: its position, the action it
    \* serves, its locals, what it returned, and (for the claims) the Shared
    \* State when it was called and whether it ran with no other handler
    pc, action, i, base, cmd, newPausedState, status, result, pre, alone,
    \* State.mu, and the goroutines inside a method of State: the method and
    \* its arguments, the position in it, the fields read so far, the value
    \* returned, the fields as they were when the lock was taken, and the
    \* number of calls made
    mu, call, at, got, ret, locked, calls,
    \* one connection per slot: whether it is open, the documents the client
    \* has sent that are not decoded yet, the decoded Request, the Response
    \* written, and (for the claims) what the capture target resolved to and
    \* how many requests were decoded and dispatched and how many responses
    \* written since the connection was accepted; ToggleRecord's currentState;
    \* the arguments executeCommand passed to the handler; and (for the
    \* claims) how many requests have been answered with a failure
    conn, inbuf, request, resp, target, stats, currentState, args, failed,
    \* the Daemon: its context, its listener, the socket file, the accept loop
    \* of Start, the cleanup goroutine and the goroutine that calls Stop
    ctx, listener, socketFile, loop, cleanupRoutine, stop,
    \* auto-start: each client invocation's position in ensureDaemonRunning
    \* and the probes it has made; each daemon process's position in Start;
    \* the daemon whose socket the socket path names (0: no file)
    client, tries, daemon, path

stateVars == <<recording, paused, recordingFile, recordingPID, recordingStartTime,
               obsRecording, obsPaused, countdownRemaining, icons>>
fsVars == <<cacheFile, aviFiles, mp4Files>>
procVars == <<proc, watcher, procPaused>>
connVars == <<pc, action, i, base, cmd, newPausedState, status, result, pre, alone>>

muVars == <<mu, call, at, got, ret, locked, calls>>

bootVars == <<client, tries, daemon, path>>
daemonVars == <<ctx, listener, socketFile, loop, cleanupRoutine, stop, bootVars>>

netVars == <<conn, inbuf, request, resp, target, stats, currentState, args, failed,
             daemonVars>>

vars == <<stateVars, clock, fsVars, procVars, connVars, muVars, netVars>>

\* ------------------------------------------------------------ Shared State

DefaultIcons ==
    [Idle |-> "", Recording |-> "rec", Paused |-> "pause",
     ObsRecording |-> "rec", ObsPaused |-> "pause", Countdown |-> "timer"]

\* SetRecording that writes the file and the process id only when a
\* recording starts.
SetRecordingOnStartOnly(rec, file, pid) ==
    /\ recording' = rec
    /\ recordingFile' = IF rec THEN file ELSE recordingFile
    /\ recordingPID' = IF rec THEN pid ELSE recordingPID
    /\ recordingStartTime' = IF rec THEN clock ELSE ZeroTime
    /\ UNCHANGED <<paused, obsRecording, obsPaused, countdownRemaining, icons>>

\* SetRecording sets the recording state and file information.
SetRecording(rec, file, pid) ==
    /\ recording' = rec
    /\ recordingFile' = file
    /\ recordingPID' = pid
    /\ recordingStartTime' = IF rec THEN clock ELSE ZeroTime
    /\ UNCHANGED <<paused, obsRecording, obsPaused, countdownRemaining, icons>>

SetOBSState(rec, p) ==
    /\ obsRecording' = rec
    /\ obsPaused' = p
    /\ UNCHANGED <<recording, paused, recordingFile, recordingPID,
                   recordingStartTime, countdownRemaining, icons>>

SetPaused(p) ==
    /\ paused' = p
    /\ UNCHANGED <<recording, recordingFile, recordingPID, recordingStartTime,
                   obsRecording, obsPaused, countdownRemaining, icons>>

SetCountdown(seconds) ==
    /\ countdownRemaining' = seconds
    /\ UNCHANGED <<recording, paused, recordingFile, recordingPID,
                   recordingStartTime, obsRecording, obsPaused, icons>>

\* A ClearCountdown that leaves the countdown where it is.
ClearCountdownKept == UNCHANGED stateVars

ClearCountdown ==
    /\ countdownRemaining' = 0
    /\ UNCHANGED <<recording, paused, recordingFile, recordingPID,
                   recordingStartTime, obsRecording, obsPaused, icons>>

GetRecordingPID == recordingPID

\* GetState: the snapshot sent with every Response (protocol.State)
GetState ==
    [Recording |-> recording, Paused |-> paused, RecordingFile |-> recordingFile,
     OBSRecording |-> obsRecording, OBSPaused |-> obsPaused]

\* The status computed from given field values; formatted strings are kept
\* as tuples of their parts.
WaybarStatusOf(cd, rec, psd, file, start, obsRec, obsPsd, ic, now) ==
    IF cd > 0 THEN
        [Text |-> <<ic.Countdown, cd>>,
         Tooltip |-> <<"Starting in %d seconds", cd>>,
         Class |-> "countdown", Alt |-> "countdown"]
    ELSE IF rec THEN
        IF psd THEN
            [Text |-> <<ic.Paused>>, Tooltip |-> <<"Recording paused">>,
             Class |-> "paused", Alt |-> "paused"]
        ELSE
            LET elapsed == now - start
                minutes == elapsed \div 60
                seconds == elapsed % 60
            IN  [Text |-> <<ic.Recording, minutes, seconds>>,
                 Tooltip |-> <<"Recording: %s (%02d:%02d)", file, minutes, seconds>>,
                 Class |-> "recording", Alt |-> "recording"]
    ELSE IF obsRec THEN
        IF obsPsd THEN
            [Text |-> <<ic.ObsPaused>>, Tooltip |-> <<"OBS recording paused">>,
             Class |-> "paused", Alt |-> "paused"]
        ELSE
            [Text |-> <<ic.ObsRecording>>, Tooltip |-> <<"OBS recording in progress">>,
             Class |-> "recording", Alt |-> "recording"]
    ELSE
        [Text |-> <<ic.Idle>>, Tooltip |-> <<"Ready for screenshot/recording">>,
         Class |-> "idle", Alt |-> "idle"]

\* The status as the first version of the state package computed it: no
\* countdown.
GetWaybarStatusNoCountdown ==
    WaybarStatusOf(0, recording, paused, recordingFile,
                   recordingStartTime, obsRecording, obsPaused, icons, clock)

GetWaybarStatus ==
    WaybarStatusOf(countdownRemaining, recording, paused, recordingFile,
                   recordingStartTime, obsRecording, obsPaused, icons, clock)

\* ------------------------------------------------------------------- Init

NoCall == [method |-> "", recording |-> FALSE, file |-> "", pid |-> 0]
NoFields == <<>>

\* No Request decoded, no Response written, nothing counted, no State read.
NoRequest == [Command |-> "", Action |-> "", Options |-> <<>>]
NullState ==
    [Recording |-> FALSE, Paused |-> FALSE, RecordingFile |-> "",
     OBSRecording |-> FALSE, OBSPaused |-> FALSE]
NoResponse == [Success |-> FALSE, Message |-> "", HasState |-> FALSE, State |-> NullState]
NoStats == [decoded |-> 0, dispatched |-> 0, written |-> 0]
NoState == NullState
NoArgs == [delay |-> 0, useCurrentScreen |-> FALSE, startAction |-> ""]

NoSnapshot ==
    [tracked |-> [recording |-> FALSE, recordingFile |-> "", recordingPID |-> 0],
     cacheFile |-> ""]

\* New: the state, the handlers and the connections before anything is
\* served.
InitNew ==
    /\ recording = FALSE
    /\ paused = FALSE
    /\ recordingFile = ""
    /\ recordingPID = 0
    /\ recordingStartTime = ZeroTime
    /\ obsRecording = FALSE
    /\ obsPaused = FALSE
    /\ countdownRemaining = 0
    /\ icons = DefaultIcons
    /\ clock = 1
    /\ cacheFile = ""
    /\ aviFiles = {}
    /\ mp4Files = {}
    /\ proc = [p \in Pids |-> "none"]
    /\ watcher = [p \in Pids |-> "none"]
    /\ procPaused = [p \in Pids |-> FALSE]
    /\ pc = [c \in Conns |-> "idle"]
    /\ action = [c \in Conns |-> ""]
    /\ i = [c \in Conns |-> 0]
    /\ base = [c \in Conns |-> ""]
    /\ cmd = [c \in Conns |-> 0]
    /\ newPausedState = [c \in Conns |-> FALSE]
    /\ status = [c \in Conns |-> <<>>]
    /\ result = [c \in Conns |-> ""]
    /\ pre = [c \in Conns |-> NoSnapshot]
    /\ alone = [c \in Conns |-> FALSE]
    /\ mu = [writer |-> FALSE, readers |-> 0]
    /\ call = [g \in Goroutines |-> NoCall]
    /\ at = [g \in Goroutines |-> "idle"]
    /\ got = [g \in Goroutines |-> NoFields]
    /\ ret = [g \in Goroutines |-> NoFields]
    /\ locked = [g \in Goroutines |-> NoFields]
    /\ calls = [g \in Goroutines |-> 0]
    /\ conn = [c \in Conns |-> "closed"]
    /\ inbuf = [c \in Conns |-> <<>>]
    /\ request = [c \in Conns |-> NoRequest]
    /\ resp = [c \in Conns |-> NoResponse]
    /\ target = [c \in Conns |-> "none"]
    /\ stats = [c \in Conns |-> NoStats]
    /\ currentState = [c \in Conns |-> NoState]
    /\ args = [c \in Conns |-> NoArgs]
    /\ failed = 0

\* The client invocations and daemon processes of the machine.
MaxClient == 2    \* client invocations at once
MaxDaemon == 3    \* daemon processes spawned in one run
MaxTries == 2     \* probes a client makes after it has spawned a daemon
Clients == 1..MaxClient
Daemons == 1..MaxDaemon

\* New, and Start up to its accept loop: the socket is listened on, the
\* cleanup goroutine and the signal goroutine are running. The daemon is
\* process 1 and no client is starting another.
Init ==
    /\ InitNew
    /\ ctx = "live"
    /\ listener = "open"
    /\ socketFile = TRUE
    /\ loop = "accepting"
    /\ cleanupRoutine = "running"
    /\ stop = "idle"
    /\ client = [k \in Clients |-> "idle"]
    /\ tries = [k \in Clients |-> 0]
    /\ daemon = [d \in Daemons |-> IF d = 1 THEN "listening" ELSE "none"]
    /\ path = 1

\* ------------------------------------------- the Shared State on its own
\* Any caller, any arguments, in any order.

ApiFiles == {"", "rec.avi"}

CallSetRecording ==
    /\ \E rec \in BOOLEAN, file \in ApiFiles, pid \in 0..MaxRec :
           SetRecording(rec, file, pid)
    /\ UNCHANGED <<clock, fsVars, procVars, connVars, muVars, netVars>>

CallSetPaused ==
    /\ \E p \in BOOLEAN : SetPaused(p)
    /\ UNCHANGED <<clock, fsVars, procVars, connVars, muVars, netVars>>

CallSetOBSState ==
    /\ \E rec \in BOOLEAN, p \in BOOLEAN : SetOBSState(rec, p)
    /\ UNCHANGED <<clock, fsVars, procVars, connVars, muVars, netVars>>

CallSetCountdown ==
    /\ \E seconds \in (0 - 1)..MaxDelay : SetCountdown(seconds)
    /\ UNCHANGED <<clock, fsVars, procVars, connVars, muVars, netVars>>

CallClearCountdown ==
    /\ ClearCountdown
    /\ UNCHANGED <<clock, fsVars, procVars, connVars, muVars, netVars>>

Tick ==
    /\ clock < 1 + MaxClock
    /\ clock' = clock + 1
    /\ UNCHANGED <<stateVars, fsVars, procVars, connVars, muVars, netVars>>

NextState ==
    \/ CallSetRecording
    \/ CallSetPaused
    \/ CallSetOBSState
    \/ CallSetCountdown
    \/ CallClearCountdown
    \/ Tick

SpecState == Init /\ [][NextState]_vars

\* ------------------------------------------------------------ the daemon
\* Daemon.handleConnection runs Daemon.executeCommand on a goroutine of its
\* own for every connection; each handler below is one request of one
\* connection, taken one blocking call at a time.

StartActions == {"movie-selection", "movie-screen", "movie-current-window"}

InFlight(c) == pc[c] \notin {"idle", "done"}

Tracked ==
    [recording |-> recording, recordingFile |-> recordingFile,
     recordingPID |-> recordingPID]

Snapshot == [tracked |-> Tracked, cacheFile |-> cacheFile]

\* executeCommand routes the request of connection c to the handler of a.
\* For the claims about StopRecording, the fields it is said to leave alone
\* are remembered as they were at the call.
Dispatch(c, a) ==
    /\ pc[c] \in {"idle", "toggle"}
    /\ action' = [action EXCEPT ![c] = a]
    /\ pre' = [pre EXCEPT ![c] = IF a = "stop-recording" THEN Snapshot ELSE NoSnapshot]
    /\ alone' = [d \in Conns |->
                    IF d = c THEN \A e \in Conns \ {c} : ~InFlight(e)
                    ELSE IF InFlight(d) THEN FALSE ELSE alone[d]]

\* The handler of connection c returns r; its locals are gone.
Return(c, r) ==
    /\ pc' = [pc EXCEPT ![c] = "done"]
    /\ result' = [result EXCEPT ![c] = r]
    /\ i' = [i EXCEPT ![c] = 0]
    /\ base' = [base EXCEPT ![c] = ""]
    /\ cmd' = [cmd EXCEPT ![c] = 0]
    /\ newPausedState' = [newPausedState EXCEPT ![c] = FALSE]
    /\ status' = [status EXCEPT ![c] = <<>>]

\* The handler of connection c goes on to its next call.
Goto(c, label) ==
    /\ pc' = [pc EXCEPT ![c] = label]
    /\ UNCHANGED result

\* How a tool started with exec.CommandContext(ctx, ...) can end: once the
\* context is cancelled it is not started, or is killed, and the call fails.
Outcomes == IF ctx = "cancelled" THEN {FALSE} ELSE BOOLEAN

\* Recorder processes are numbered in the order they are launched.
FreePids == {p \in Pids : proc[p] = "none"}
Launching == {c \in Conns : action[c] \in StartActions /\ InFlight(c) /\ cmd[c] = 0}
CanStart == Cardinality(Launching) < Cardinality(FreePids)

\* sleepWithCountdown: one SetCountdown and one second of sleep per round,
\* then ClearCountdown; nothing at all for delay <= 0.
\* A sleepWithCountdown that goes through its loop and clears the countdown
\* whatever the delay.
AfterDelayAlways(c, delay, next) ==
    /\ i' = [i EXCEPT ![c] = delay]
    /\ Goto(c, "countdown")

AfterDelay(c, delay, next) ==
    /\ i' = [i EXCEPT ![c] = delay]
    /\ Goto(c, IF delay > 0 THEN "countdown" ELSE next)

AfterCountdown(c) == IF action[c] \in StartActions THEN "start" ELSE "grim"

\* A sleepWithCountdown that leaves the countdown at its last value.
sleepWithCountdownNoClear(c) ==
    /\ pc[c] = "countdown"
    /\ \/ /\ i[c] > 0
          /\ SetCountdown(i[c])
          /\ i' = [i EXCEPT ![c] = i[c] - 1]
          /\ UNCHANGED pc
       \/ /\ i[c] = 0
          /\ UNCHANGED stateVars
          /\ pc' = [pc EXCEPT ![c] = AfterCountdown(c)]
          /\ UNCHANGED i
    /\ UNCHANGED <<clock, muVars, netVars, fsVars, procVars, action, base, cmd, newPausedState, status,
                   result, pre, alone>>

sleepWithCountdown(c) ==
    /\ pc[c] = "countdown"
    /\ \/ /\ i[c] > 0
          /\ SetCountdown(i[c])
          /\ i' = [i EXCEPT ![c] = i[c] - 1]
          /\ UNCHANGED pc
       \/ /\ i[c] = 0
          /\ ClearCountdown
          /\ pc' = [pc EXCEPT ![c] = AfterCountdown(c)]
          /\ UNCHANGED i
    /\ UNCHANGED <<clock, muVars, netVars, fsVars, procVars, action, base, cmd, newPausedState, status,
                   result, pre, alone>>

\* What resolving a capture target gives: an error, an empty result or a
\* geometry / an output name.
Targets == {"error", "empty", "geom"}

\* slurp and swaymsg are started with the context too.
Resolved == IF ctx = "cancelled" THEN {"error"} ELSE Targets

\* The part of a start action before its countdown: the capture target is
\* resolved, and the action goes on when the result passes the handler's
\* test. (notify.CaptureDelay sends nothing for a delay of at most 2.)
StartAction(c, a, failure, delay, geom, aborts) ==
    /\ CanStart
    /\ Dispatch(c, a)
    /\ IF geom \in aborts
       THEN Return(c, failure)
       ELSE AfterDelay(c, delay, "start") /\ UNCHANGED <<base, cmd, newPausedState, status>>
    /\ UNCHANGED <<stateVars, clock, muVars, fsVars, procVars>>

\* MovieSelection, lines 38-41: err != nil || geom == ""
MovieSelection(c, delay, geom) ==
    StartAction(c, "movie-selection", "selection cancelled or failed", delay, geom,
                {"error", "empty"})

\* MovieScreen, lines 50-53: err != nil || output == ""
MovieScreen(c, delay, geom) ==
    StartAction(c, "movie-screen", "failed to select output", delay, geom,
                {"error", "empty"})

\* MovieCurrentWindow, lines 70-73: err != nil
MovieCurrentWindow(c, delay, geom) ==
    StartAction(c, "movie-current-window", "failed to get window geometry", delay, geom,
                {"error"})

\* Config.GenerateRecordingBase: every request of a run falls in one minute.
GenerateRecordingBase == "recording-ts"

\* startRecording, lines 81-93: the base name, suffixed with the daemon's
\* process id when the converted file exists, is written to the cache file.
startRecordingBase ==
    IF GenerateRecordingBase \in mp4Files
    THEN GenerateRecordingBase \o "-pid"
    ELSE GenerateRecordingBase

startRecordingWriteCache(c) ==
    /\ pc[c] = "start"
    /\ \E ok \in BOOLEAN :
          IF ok
          THEN /\ cacheFile' = startRecordingBase
               /\ base' = [base EXCEPT ![c] = startRecordingBase]
               /\ Goto(c, "launch")
               /\ UNCHANGED <<i, cmd, newPausedState, status>>
          ELSE /\ Return(c, "failed to write cache file")
               /\ UNCHANGED cacheFile
    /\ UNCHANGED <<stateVars, clock, muVars, netVars, aviFiles, mp4Files, procVars, action, pre, alone>>

\* external.StartWfRecorder: cmd.Start() fails, or a recorder process runs;
\* the recorder creates its output file unless it is about to fail.
StartWfRecorder(c) ==
    /\ pc[c] = "launch"
    /\ \/ /\ Return(c, "failed to start recording")
          /\ UNCHANGED <<aviFiles, proc>>
       \/ /\ ctx = "live"
          /\ FreePids # {}
          /\ LET p == CHOOSE q \in FreePids : \A r \in FreePids : q <= r
             IN  /\ proc' = [proc EXCEPT ![p] = "running"]
                 /\ cmd' = [cmd EXCEPT ![c] = p]
          /\ \E wrote \in BOOLEAN :
                aviFiles' = IF wrote THEN aviFiles \cup {base[c]} ELSE aviFiles
          /\ Goto(c, "setrecording")
          /\ UNCHANGED <<i, base, newPausedState, status>>
    /\ UNCHANGED <<stateVars, clock, muVars, netVars, cacheFile, mp4Files, watcher, procPaused,
                   action, pre, alone>>

\* startRecording, lines 101-110: the state is set, the watcher goroutine is
\* spawned and the handler returns nil.
startRecordingSetRecording(c) ==
    /\ pc[c] = "setrecording"
    /\ SetRecording(TRUE, base[c] \o ".avi", cmd[c])
    /\ watcher' = [watcher EXCEPT ![cmd[c]] = "waiting"]
    /\ Return(c, "ok")
    /\ UNCHANGED <<clock, muVars, netVars, fsVars, proc, procPaused, action, pre, alone>>

\* A recorder process that is over: it exited, or it was killed when the
\* context it was started with was cancelled.
Over == {"exited", "killed"}

\* A watcher that waits for the recorder and resets nothing.
WatcherWaitOnly(p) ==
    /\ watcher[p] = "waiting"
    /\ proc[p] \in Over
    /\ watcher' = [watcher EXCEPT ![p] = "done"]
    /\ UNCHANGED <<stateVars, clock, muVars, netVars, fsVars, proc, procPaused, connVars>>

\* The goroutine of startRecording, lines 105-108: cmd.Wait() returns once
\* the recorder has exited, then the state is reset.
Watcher(p) ==
    /\ watcher[p] = "waiting"
    /\ proc[p] \in Over
    /\ SetRecording(FALSE, "", 0)
    /\ watcher' = [watcher EXCEPT ![p] = "done"]
    /\ UNCHANGED <<clock, muVars, netVars, fsVars, proc, procPaused, connVars>>

\* The recorder exits by itself: a crash, or a signal from outside the daemon.
RecorderExit(p) ==
    /\ proc[p] = "running"
    /\ proc' = [proc EXCEPT ![p] = "exited"]
    /\ procPaused' = [procPaused EXCEPT ![p] = FALSE]
    /\ UNCHANGED <<stateVars, clock, muVars, netVars, fsVars, watcher, connVars>>

\* StopRecording, lines 116-119: killall -s SIGINT wf-recorder ends every
\* recorder process, whoever launched it, then the handler sleeps.
Killall == [p \in Pids |-> IF proc[p] = "running" THEN "exited" ELSE proc[p]]

StopRecording(c) ==
    /\ Dispatch(c, "stop-recording")
    /\ proc' = Killall
    /\ procPaused' = [p \in Pids |-> FALSE]
    /\ Goto(c, "readcache")
    /\ UNCHANGED <<stateVars, clock, muVars, fsVars, watcher, i, base, cmd, newPausedState, status>>

\* StopRecording that converts without looking for the raw file.
StopRecordingReadCacheNoStat(c) ==
    /\ pc[c] = "readcache"
    /\ \E readable \in (IF cacheFile = "" THEN {FALSE} ELSE BOOLEAN) :
          IF ~readable
          THEN Return(c, "failed to read cache file")
          ELSE /\ base' = [base EXCEPT ![c] = cacheFile]
               /\ Goto(c, "convert")
               /\ UNCHANGED <<i, cmd, newPausedState, status>>
    /\ UNCHANGED <<stateVars, clock, muVars, netVars, fsVars, procVars, action, pre, alone>>

\* StopRecording that swallows the error of os.ReadFile.
StopRecordingReadCacheSwallow(c) ==
    /\ pc[c] = "readcache"
    /\ \E readable \in (IF cacheFile = "" THEN {FALSE} ELSE BOOLEAN) :
          IF ~readable
          THEN Return(c, "ok")
          ELSE IF cacheFile \in aviFiles
          THEN /\ base' = [base EXCEPT ![c] = cacheFile]
               /\ Goto(c, "convert")
               /\ UNCHANGED <<i, cmd, newPausedState, status>>
          ELSE Return(c, "recording file not found")
    /\ UNCHANGED <<stateVars, clock, muVars, netVars, fsVars, procVars, action, pre, alone>>

\* StopRecording, lines 122-134: os.ReadFile of the cache file fails when
\* there is none and may fail when there is one; then os.Stat of the raw file.
StopRecordingReadCache(c) ==
    /\ pc[c] = "readcache"
    /\ \E readable \in (IF cacheFile = "" THEN {FALSE} ELSE BOOLEAN) :
          IF ~readable
          THEN Return(c, "failed to read cache file")
          ELSE IF cacheFile \in aviFiles
          THEN /\ base' = [base EXCEPT ![c] = cacheFile]
               /\ Goto(c, "convert")
               /\ UNCHANGED <<i, cmd, newPausedState, status>>
          ELSE Return(c, "recording file not found")
    /\ UNCHANGED <<stateVars, clock, muVars, netVars, fsVars, procVars, action, pre, alone>>

\* StopRecording, lines 138-146: external.Ffmpeg runs to its end; when it
\* succeeds the raw file and the cache file are removed.
StopRecordingFfmpeg(c) ==
    /\ pc[c] = "convert"
    /\ \E ok \in Outcomes :
          IF ok
          THEN /\ mp4Files' = mp4Files \cup {base[c]}
               /\ aviFiles' = aviFiles \ {base[c]}
               /\ cacheFile' = ""
               /\ Goto(c, "clear")
               /\ UNCHANGED <<i, base, cmd, newPausedState, status>>
          ELSE /\ Return(c, "failed to convert video")
               /\ UNCHANGED fsVars
    /\ UNCHANGED <<stateVars, clock, muVars, netVars, procVars, action, pre, alone>>

\* StopRecording, lines 148-153
StopRecordingSetRecording(c) ==
    /\ pc[c] = "clear"
    /\ SetRecording(FALSE, "", 0)
    /\ Return(c, "ok")
    /\ UNCHANGED <<clock, muVars, netVars, fsVars, procVars, action, pre, alone>>

\* PauseRecording that flips the flag before it looks at the process id.
PauseRecordingFlipFirst(c) ==
    /\ Dispatch(c, "pause-recording")
    /\ SetPaused(~paused)
    /\ IF GetRecordingPID = 0
       THEN Return(c, "no recording in progress")
       ELSE /\ cmd' = [cmd EXCEPT ![c] = GetRecordingPID]
            /\ Goto(c, "signal")
            /\ UNCHANGED <<i, base, newPausedState, status>>
    /\ UNCHANGED <<clock, muVars, fsVars, procVars>>

\* PauseRecording, lines 158-161
PauseRecording(c) ==
    /\ Dispatch(c, "pause-recording")
    /\ IF GetRecordingPID = 0
       THEN Return(c, "no recording in progress")
       ELSE /\ cmd' = [cmd EXCEPT ![c] = GetRecordingPID]
            /\ Goto(c, "signal")
            /\ UNCHANGED <<i, base, newPausedState, status>>
    /\ UNCHANGED <<stateVars, clock, muVars, fsVars, procVars>>

\* PauseRecording, lines 163-171: SIGUSR1 toggles the pause of a running
\* recorder, is lost on one that has exited and is not yet reaped, and fails
\* on one that is gone.
PauseRecordingSignal(c) ==
    /\ pc[c] = "signal"
    /\ IF proc[cmd[c]] \in Over /\ watcher[cmd[c]] = "done"
       THEN Return(c, "failed to pause recording") /\ UNCHANGED procPaused
       ELSE /\ procPaused' = [procPaused EXCEPT
                                 ![cmd[c]] = IF proc[cmd[c]] = "running"
                                             THEN ~procPaused[cmd[c]]
                                             ELSE procPaused[cmd[c]]]
            /\ Goto(c, "getstate")
            /\ UNCHANGED <<i, base, cmd, newPausedState, status>>
    /\ UNCHANGED <<stateVars, clock, muVars, netVars, fsVars, proc, watcher, action, pre, alone>>

\* PauseRecording, lines 174-175
PauseRecordingGetState(c) ==
    /\ pc[c] = "getstate"
    /\ newPausedState' = [newPausedState EXCEPT ![c] = ~GetState.Paused]
    /\ Goto(c, "setpaused")
    /\ UNCHANGED <<stateVars, clock, muVars, netVars, fsVars, procVars, action, i, base, cmd,
                   status, pre, alone>>

\* PauseRecording, lines 176-184
PauseRecordingSetPaused(c) ==
    /\ pc[c] = "setpaused"
    /\ SetPaused(newPausedState[c])
    /\ Return(c, "ok")
    /\ UNCHANGED <<clock, muVars, netVars, fsVars, procVars, action, pre, alone>>

\* The part of a screenshot action before its countdown, as StartAction is
\* of a start action.
ScreenshotAction(c, a, failure, delay, geom, aborts) ==
    /\ Dispatch(c, a)
    /\ IF geom \in aborts
       THEN Return(c, failure)
       ELSE AfterDelay(c, delay, "grim") /\ UNCHANGED <<base, cmd, newPausedState, status>>
    /\ UNCHANGED <<stateVars, clock, muVars, fsVars, procVars>>

\* ScreenshotHandler.CurrentWindowClipboard, lines 43-52: the notification
\* and the window geometry, either of which may fail, then the countdown.
CurrentWindowClipboard(c, delay, geom) ==
    /\ Dispatch(c, "current-window-clipboard")
    /\ IF geom = "error"
       THEN Return(c, "failed to get window geometry")
       ELSE AfterDelay(c, delay, "grim") /\ UNCHANGED <<base, cmd, newPausedState, status>>
    /\ UNCHANGED <<stateVars, clock, muVars, fsVars, procVars>>

\* ScreenshotHandler.CurrentWindowFile, lines 63-72
CurrentWindowFile(c, delay, geom) ==
    ScreenshotAction(c, "current-window-file", "failed to get window geometry", delay, geom,
                     {"error"})

\* ScreenshotHandler.CurrentScreenClipboard, lines 86-96
CurrentScreenClipboard(c, delay, geom) ==
    ScreenshotAction(c, "current-screen-clipboard", "failed to select output", delay, geom,
                     {"error", "empty"})

\* ScreenshotHandler.SelectionFile, lines 108-119
SelectionFile(c, delay, geom) ==
    ScreenshotAction(c, "selection-file", "selection cancelled or failed", delay, geom,
                     {"error", "empty"})

\* ScreenshotHandler.SelectionEdit, lines 174-184
SelectionEdit(c, delay, geom) ==
    ScreenshotAction(c, "selection-edit", "selection cancelled or failed", delay, geom,
                     {"error", "empty"})

\* ScreenshotHandler.SelectionClipboard, lines 203-213
SelectionClipboard(c, delay, geom) ==
    ScreenshotAction(c, "selection-clipboard", "selection cancelled or failed", delay, geom,
                     {"error", "empty"})

\* The handlers that go on after the capture: to the notification with its
\* actions, the file name dialog, the editor.
Interactive == {"selection-file", "selection-edit", "selection-clipboard"}

\* external.Grim, and for the handlers that end there external.WlCopy or
\* the notification
Grim(c) ==
    /\ pc[c] = "grim"
    /\ \E ok \in Outcomes :
          IF ok /\ action[c] \in Interactive
          THEN Goto(c, "after") /\ UNCHANGED <<i, base, cmd, newPausedState, status>>
          ELSE Return(c, IF ok THEN "ok" ELSE "failed to capture screenshot")
    /\ UNCHANGED <<stateVars, clock, muVars, netVars, fsVars, procVars, action, pre, alone>>

\* SelectionFile, lines 122-169, SelectionEdit, lines 191-198, and
\* SelectionClipboard, lines 215-303: what the user chooses and the tools
\* that then run, any of which may fail
AfterGrim(c) ==
    /\ pc[c] = "after"
    /\ \E ok \in Outcomes :
          Return(c, IF ok THEN "ok" ELSE "failed after the capture")
    /\ UNCHANGED <<stateVars, clock, muVars, netVars, fsVars, procVars, action, pre, alone>>

\* handleConnection, lines 221-225 and 199: the Response is written and the
\* connection closed; the goroutine ends.
handleConnectionClose(c) ==
    /\ pc[c] = "done"
    /\ pc' = [pc EXCEPT ![c] = "idle"]
    /\ action' = [action EXCEPT ![c] = ""]
    /\ result' = [result EXCEPT ![c] = ""]
    /\ pre' = [pre EXCEPT ![c] = NoSnapshot]
    /\ alone' = [alone EXCEPT ![c] = FALSE]
    /\ UNCHANGED <<stateVars, clock, muVars, fsVars, procVars, i, base, cmd, newPausedState, status>>

\* The handlers on their own: any request at any time, with any delay and
\* any outcome of the target resolution; the connection itself is left out.
Next ==
    \/ \E c \in Conns :
          \/ pc[c] = "idle" /\ \E delay \in 0..MaxDelay, geom \in Targets :
                MovieSelection(c, delay, geom) /\ UNCHANGED netVars
          \/ pc[c] = "idle" /\ \E delay \in 0..MaxDelay, geom \in Targets :
                MovieScreen(c, delay, geom) /\ UNCHANGED netVars
          \/ pc[c] = "idle" /\ \E delay \in 0..MaxDelay, geom \in Targets :
                MovieCurrentWindow(c, delay, geom) /\ UNCHANGED netVars
          \/ sleepWithCountdown(c)
          \/ startRecordingWriteCache(c)
          \/ StartWfRecorder(c)
          \/ startRecordingSetRecording(c)
          \/ StopRecording(c) /\ UNCHANGED netVars
          \/ StopRecordingReadCache(c)
          \/ StopRecordingFfmpeg(c)
          \/ StopRecordingSetRecording(c)
          \/ PauseRecording(c) /\ UNCHANGED netVars
          \/ PauseRecordingSignal(c)
          \/ PauseRecordingGetState(c)
          \/ PauseRecordingSetPaused(c)
          \/ pc[c] = "idle" /\ \E delay \in 0..MaxDelay, geom \in Targets :
                CurrentWindowClipboard(c, delay, geom) /\ UNCHANGED netVars
          \/ Grim(c)
          \/ handleConnectionClose(c) /\ UNCHANGED netVars
    \/ \E p \in Pids :
          \/ Watcher(p)
          \/ RecorderExit(p)

Spec == Init /\ [][Next]_vars

\* Delayed requests served at once: a screenshot and a recording start, each
\* with a delay of one second or more. A handler that sleeps in its
\* countdown wakes up.
NextCountdown ==
    \/ \E c \in Conns :
          \/ pc[c] = "idle" /\ \E delay \in 1..MaxDelay, geom \in Targets :
                CurrentWindowClipboard(c, delay, geom) /\ UNCHANGED netVars
          \/ pc[c] = "idle" /\ \E delay \in 1..MaxDelay, geom \in Targets :
                MovieScreen(c, delay, geom) /\ UNCHANGED netVars
          \/ sleepWithCountdown(c)
          \/ Grim(c)
          \/ startRecordingWriteCache(c)
          \/ StartWfRecorder(c)
          \/ startRecordingSetRecording(c)
          \/ handleConnectionClose(c) /\ UNCHANGED netVars
    \/ \E p \in Pids :
          \/ Watcher(p)
          \/ RecorderExit(p)

SpecCountdown ==
    Init /\ [][NextCountdown]_vars /\ \A c \in Conns : WF_vars(sleepWithCountdown(c))

\* The daemon with its clients taking turns: a request is sent only when no
\* other is being served. The watcher is a goroutine: once cmd.Wait() can
\* return, the scheduler runs it.
OneAtATime ==
    \A c \in Conns :
        (pc[c] = "idle" /\ pc'[c] # "idle") => \A d \in Conns \ {c} : ~InFlight(d)

NextSerial == Next /\ OneAtATime

SerialFairSpec ==
    Init /\ [][NextSerial]_vars /\ \A p \in Pids : WF_vars(Watcher(p))

\* ------------------------------------------------- the wire: JSON documents
\* A JSON value: a string, a number or a boolean with its text, or an object
\* with its members (pairs of a key and a value) in the order written.

Digits == <<"0", "1", "2", "3", "4", "5", "6", "7", "8", "9">>

\* strconv: a small non-negative integer and its decimal text
Itoa(n) == Digits[n + 1]
Atoi(t) == CHOOSE n \in 0..9 : t \in {Digits[n + 1], Digits[n + 1] \o ".5"}

Str(t) == [kind |-> "string", text |-> t, members |-> <<>>]
Num(n) == [kind |-> "number", text |-> Itoa(n), members |-> <<>>]
Frac(n) == [kind |-> "number", text |-> Itoa(n) \o ".5", members |-> <<>>]
Bool(b) == [kind |-> "bool", text |-> IF b THEN "true" ELSE "false", members |-> <<>>]
Obj(m) == [kind |-> "object", text |-> "", members |-> m]
Malformed == [kind |-> "malformed", text |-> "{", members |-> <<>>]

Has(m, k) == \E j \in 1..Len(m) : m[j][1] = k

\* the value of key k: as encoding/json has it, the last one written wins
Get(m, k) ==
    m[CHOOSE j \in 1..Len(m) :
          m[j][1] = k /\ \A l \in (j + 1)..Len(m) : m[l][1] # k][2]

\* v.(string), v.(float64), v.(bool), v.(map[string]interface{}) on a key
Is(m, k, kind) == Has(m, k) /\ Get(m, k).kind = kind

\* The client's json.NewEncoder(conn).Encode(req)
Encode(req) ==
    Obj(<< <<"command", Str(req.Command)>>,
           <<"action", Str(req.Action)>>,
           <<"options", Obj(req.Options)>> >>)

\* The daemon's decoder.Decode(&req): the document must be an object whose
\* command and action are strings and whose options is an object; a key
\* that is absent leaves the zero value, any other key is ignored.
Decodes(doc) ==
    /\ doc.kind = "object"
    /\ Has(doc.members, "command") => Is(doc.members, "command", "string")
    /\ Has(doc.members, "action") => Is(doc.members, "action", "string")
    /\ Has(doc.members, "options") => Is(doc.members, "options", "object")

Decode(doc) ==
    [Command |-> IF Has(doc.members, "command")
                 THEN Get(doc.members, "command").text ELSE "",
     Action |-> IF Has(doc.members, "action")
                THEN Get(doc.members, "action").text ELSE "",
     Options |-> IF Has(doc.members, "options")
                 THEN Get(doc.members, "options").members ELSE <<>>]

\* ------------------------------------------------- Daemon.executeCommand

\* the cases of the switch on req.Action
KnownActions ==
    {"current-window-clipboard", "current-window-file", "current-screen-clipboard",
     "selection-file", "selection-edit", "selection-clipboard",
     "movie-selection", "movie-screen", "movie-current-window",
     "stop-recording", "pause-recording", "toggle-record",
     "obs-toggle-recording", "obs-toggle-pause", "waybar-status"}

\* executeCommand, lines 231-241: delay is 0 unless options.delay is a number
DelayOf(req) ==
    IF Is(req.Options, "delay", "number")
    THEN Atoi(Get(req.Options, "delay").text)
    ELSE 0

\* A use_current_screen that any value but false turns on.
UseCurrentScreenOfTruthy(req) ==
    Has(req.Options, "use_current_screen")
    /\ Get(req.Options, "use_current_screen") # Bool(FALSE)

\* executeCommand, lines 239-241: useCurrentScreen is false unless
\* options.use_current_screen is a boolean
UseCurrentScreenOf(req) ==
    Is(req.Options, "use_current_screen", "bool")
    /\ Get(req.Options, "use_current_screen").text = "true"

\* A start_action that falls back to the default when it names no start
\* action.
StartActionOfLenient(req) ==
    IF Is(req.Options, "start_action", "string")
       /\ Get(req.Options, "start_action").text \in StartActions
    THEN Get(req.Options, "start_action").text
    ELSE "movie-selection"

\* executeCommand, lines 285-290: start_action is "movie-selection" unless
\* options.start_action is a string that is not empty
StartActionOf(req) ==
    IF Is(req.Options, "start_action", "string") /\ Get(req.Options, "start_action").text # ""
    THEN Get(req.Options, "start_action").text
    ELSE "movie-selection"

IconFields == {"Idle", "Recording", "Paused", "ObsRecording", "ObsPaused"}

\* The override that starts from the icons in force.
OverrideIconsKeep(iconsMap) ==
    [f \in DOMAIN DefaultIcons |->
        IF f \in IconFields /\ Is(iconsMap, f, "string")
        THEN Get(iconsMap, f).text
        ELSE icons[f]]

\* The override that takes the OBS glyphs from the recorder's keys.
OverrideIconsSwapped(iconsMap) ==
    [f \in DOMAIN DefaultIcons |->
        IF f \in {"ObsRecording", "ObsPaused"} /\ Is(iconsMap, f, "string")
           THEN DefaultIcons[f]
        ELSE IF f = "ObsRecording" /\ Is(iconsMap, "Recording", "string")
           THEN Get(iconsMap, "Recording").text
        ELSE IF f = "ObsPaused" /\ Is(iconsMap, "Paused", "string")
           THEN Get(iconsMap, "Paused").text
        ELSE IF f \in IconFields /\ Is(iconsMap, f, "string")
           THEN Get(iconsMap, f).text
        ELSE DefaultIcons[f]]

\* executeCommand, lines 302-318: the icons handed to SetIcons are the
\* defaults with every field of the map that is a string put in its place.
OverrideIcons(iconsMap) ==
    [f \in DOMAIN DefaultIcons |->
        IF f \in IconFields /\ Is(iconsMap, f, "string")
        THEN Get(iconsMap, f).text
        ELSE DefaultIcons[f]]

\* SetIcons updates the icons used for waybar status.
SetIcons(ic) ==
    /\ icons' = ic
    /\ UNCHANGED <<recording, paused, recordingFile, recordingPID, recordingStartTime,
                   obsRecording, obsPaused, countdownRemaining>>

\* json.Marshal of a string: the characters HTML cares about are written as
\* \u escapes; the strings of this model hold them only in a glyph.
Escape(t) == IF t = "<I>" THEN "\\u003cI\\u003e" ELSE t

\* fmt.Sprintf of the Text and the Tooltip of a status
Pad2(n) == IF n < 10 THEN "0" \o Itoa(n) ELSE Itoa(n)

TextOf(st) ==
    IF st.Class = "countdown" THEN Escape(st.Text[1]) \o " " \o Itoa(st.Text[2])
    ELSE IF Len(st.Text) = 3
         THEN Escape(st.Text[1]) \o " " \o Pad2(st.Text[2]) \o ":" \o Pad2(st.Text[3])
    ELSE Escape(st.Text[1])

TooltipOf(st) ==
    IF st.Class = "countdown" THEN "Starting in " \o Itoa(st.Tooltip[2]) \o " seconds"
    ELSE IF Len(st.Tooltip) = 4
         THEN "Recording: " \o st.Tooltip[2] \o " (" \o Pad2(st.Tooltip[3]) \o ":"
              \o Pad2(st.Tooltip[4]) \o ")"
    ELSE st.Tooltip[1]

\* json.Marshal(status)
Marshal(st) ==
    "{\"text\":\"" \o TextOf(st) \o "\",\"tooltip\":\"" \o TooltipOf(st)
    \o "\",\"class\":\"" \o st.Class \o "\",\"alt\":\"" \o st.Alt \o "\"}"

\* RecordingHandler.ToggleRecord, line 190: the state is read
ToggleRecord(c) ==
    /\ Dispatch(c, "toggle-record")
    /\ currentState' = [currentState EXCEPT ![c] = GetState]
    /\ Goto(c, "toggle")
    /\ UNCHANGED <<stateVars, clock, muVars, fsVars, procVars, i, base, cmd, newPausedState, status>>

\* ToggleRecord that starts a recording whatever the state says.
ToggleRecordAlwaysStarts(c, startAction, delay) ==
    /\ pc[c] = "toggle"
    /\ \E geom \in Targets :
          /\ MovieSelection(c, delay, geom)
          /\ target' = [target EXCEPT ![c] = geom]
    /\ currentState' = [currentState EXCEPT ![c] = NoState]

\* ToggleRecord, lines 192-210: stop when the state read says recording,
\* else the start handler that startAction names, else an error.
ToggleRecordSwitch(c, startAction, delay) ==
    /\ pc[c] = "toggle"
    /\ IF currentState[c].Recording
       THEN StopRecording(c) /\ UNCHANGED target
       ELSE \/ /\ startAction = "movie-selection"
               /\ \E geom \in Resolved :
                     /\ MovieSelection(c, delay, geom)
                     /\ target' = [target EXCEPT ![c] = geom]
            \/ /\ startAction = "movie-screen"
               /\ \E geom \in Resolved :
                     /\ MovieScreen(c, delay, geom)
                     /\ target' = [target EXCEPT ![c] = geom]
            \/ /\ startAction = "movie-current-window"
               /\ \E geom \in Resolved :
                     /\ MovieCurrentWindow(c, delay, geom)
                     /\ target' = [target EXCEPT ![c] = geom]
            \/ /\ startAction \notin StartActions
               /\ Return(c, "invalid start action: " \o startAction)
               /\ UNCHANGED <<stateVars, clock, muVars, fsVars, procVars, action, pre,
                              alone, target>>
    /\ currentState' = [currentState EXCEPT ![c] = NoState]

\* What obs-cli prints for `recording status`: lines, each saying whether
\* OBS records or whether the recording is paused; a text is kept as its
\* lines.
StatusTexts ==
    {<<"Recording: true", "Paused: false">>, <<"Recording: true", "Paused: true">>,
     <<"Recording: false", "Paused: false">>, <<"Recording: true">>,
     <<"Recording: false">>, <<"Paused: true">>, <<>>}

\* strings.Contains(text, pattern), for the patterns the handlers look for
Contains(text, pattern) ==
    \E n \in 1..Len(text) :
        IF pattern = "false"
        THEN text[n] \in {"Recording: false", "Paused: false"}
        ELSE text[n] = pattern

\* What external.OBSCli gives for a status query: an error, or the text
\* obs-cli prints.
ObsStatus ==
    {[err |-> TRUE, out |-> <<>>]} \cup
    (IF ctx = "cancelled" THEN {} ELSE {[err |-> FALSE, out |-> t] : t \in StatusTexts})

\* OBSHandler.ToggleRecording, lines 338-344: obs-cli recording status, and
\* the test of line 344
ToggleRecording(c) ==
    /\ Dispatch(c, "obs-toggle-recording")
    /\ \E st \in ObsStatus :
          IF st.err
          THEN Return(c, "failed to get OBS recording status")
          ELSE /\ status' = [status EXCEPT ![c] = st.out]
               /\ Goto(c, IF Contains(st.out, "false") \/ ~Contains(st.out, "Recording: true")
                          THEN "obs-start" ELSE "obs-stop")
               /\ UNCHANGED <<i, base, cmd, newPausedState>>
    /\ UNCHANGED <<stateVars, clock, muVars, fsVars, procVars>>

\* ToggleRecording, lines 346-354: obs-cli recording start
ToggleRecordingStart(c) ==
    /\ pc[c] = "obs-start"
    /\ \E ok \in Outcomes :
          IF ok
          THEN SetOBSState(TRUE, FALSE) /\ Return(c, "ok")
          ELSE Return(c, "failed to start OBS recording") /\ UNCHANGED stateVars
    /\ UNCHANGED <<clock, muVars, netVars, fsVars, procVars, action, pre, alone>>

\* ToggleRecording, lines 357-365: obs-cli recording stop
ToggleRecordingStop(c) ==
    /\ pc[c] = "obs-stop"
    /\ \E ok \in Outcomes :
          IF ok
          THEN SetOBSState(FALSE, FALSE) /\ Return(c, "ok")
          ELSE Return(c, "failed to stop OBS recording") /\ UNCHANGED stateVars
    /\ UNCHANGED <<clock, muVars, netVars, fsVars, procVars, action, pre, alone>>

\* OBSHandler.TogglePause, lines 370-372: obs-cli recording pause toggle
TogglePause(c) ==
    /\ Dispatch(c, "obs-toggle-pause")
    /\ \E ok \in Outcomes :
          IF ok
          THEN Goto(c, "obs-status") /\ UNCHANGED <<i, base, cmd, newPausedState, status>>
          ELSE Return(c, "failed to toggle OBS pause")
    /\ UNCHANGED <<stateVars, clock, muVars, fsVars, procVars>>

\* TogglePause, lines 374-377: obs-cli recording status
TogglePauseStatus(c) ==
    /\ pc[c] = "obs-status"
    /\ \E st \in ObsStatus :
          IF st.err
          THEN Return(c, "failed to get OBS recording status")
          ELSE /\ status' = [status EXCEPT ![c] = st.out]
               /\ Goto(c, "obs-setpaused")
               /\ UNCHANGED <<i, base, cmd, newPausedState>>
    /\ UNCHANGED <<stateVars, clock, muVars, netVars, fsVars, procVars, action, pre, alone>>

\* A TogglePause that writes obsPaused alone.
TogglePauseSetOBSStateKeep(c) ==
    /\ pc[c] = "obs-setpaused"
    /\ SetOBSState(obsRecording, Contains(status[c], "Paused: true"))
    /\ Return(c, "ok")
    /\ UNCHANGED <<clock, muVars, netVars, fsVars, procVars, action, pre, alone>>

\* TogglePause, lines 379-389: isPaused, and SetOBSState(true, isPaused)
TogglePauseSetOBSState(c) ==
    /\ pc[c] = "obs-setpaused"
    /\ SetOBSState(TRUE, Contains(status[c], "Paused: true"))
    /\ Return(c, "ok")
    /\ UNCHANGED <<clock, muVars, netVars, fsVars, procVars, action, pre, alone>>

\* waybar-status that leaves the icons of the request aside.
WaybarStatusIgnoreIcons(c, req) ==
    /\ Dispatch(c, "waybar-status")
    /\ Goto(c, "status")
    /\ UNCHANGED <<stateVars, clock, muVars, fsVars, procVars, i, base, cmd, newPausedState, status>>

\* executeCommand, lines 298-320: the icons of the request, when it carries
\* an icons map, are set
WaybarStatusSetIcons(c, req) ==
    /\ Dispatch(c, "waybar-status")
    /\ IF Is(req.Options, "icons", "object")
       THEN SetIcons(OverrideIcons(Get(req.Options, "icons").members))
       ELSE UNCHANGED stateVars
    /\ Goto(c, "status")
    /\ UNCHANGED <<clock, muVars, fsVars, procVars, i, base, cmd, newPausedState, status>>

\* executeCommand, lines 321-322: the status is computed and marshalled
WaybarStatusMarshal(c) ==
    /\ pc[c] = "status"
    /\ Return(c, Marshal(GetWaybarStatus))
    /\ UNCHANGED <<stateVars, clock, muVars, netVars, fsVars, procVars, action, pre, alone>>

\* An unknown action served as the default of toggle-record is.
UnknownActionAsDefault(c, req) ==
    /\ \E geom \in Targets : MovieSelection(c, 0, geom)

\* executeCommand, lines 329-333: no handler, no State
UnknownAction(c, req) ==
    /\ Dispatch(c, req.Action)
    /\ Return(c, "Unknown action: " \o req.Action)
    /\ UNCHANGED <<stateVars, clock, muVars, fsVars, procVars>>

ScreenshotActions ==
    {"current-window-clipboard", "current-window-file", "current-screen-clipboard",
     "selection-file", "selection-edit", "selection-clipboard"}

\* executeCommand, lines 245-293: what each case of the switch hands to its
\* handler of delay, useCurrentScreen and startAction
Passed(req) ==
    [delay |-> IF req.Action \in ScreenshotActions \cup StartActions \cup {"toggle-record"}
               THEN DelayOf(req) ELSE 0,
     useCurrentScreen |->
        req.Action \in {"current-screen-clipboard", "movie-screen", "toggle-record"}
        /\ UseCurrentScreenOf(req),
     startAction |-> IF req.Action = "toggle-record" THEN StartActionOf(req) ELSE ""]

\* executeCommand, lines 245-334: the switch on req.Action
executeCommandSwitch(c, req) ==
    \/ /\ req.Action = "current-window-clipboard"
       /\ \E geom \in Resolved :
             /\ CurrentWindowClipboard(c, Passed(req).delay, geom)
             /\ target' = [target EXCEPT ![c] = geom]
       /\ UNCHANGED currentState
    \/ /\ req.Action = "current-window-file"
       /\ \E geom \in Resolved :
             /\ CurrentWindowFile(c, Passed(req).delay, geom)
             /\ target' = [target EXCEPT ![c] = geom]
       /\ UNCHANGED currentState
    \/ /\ req.Action = "current-screen-clipboard"
       /\ \E geom \in Resolved :
             /\ CurrentScreenClipboard(c, Passed(req).delay, geom)
             /\ target' = [target EXCEPT ![c] = geom]
       /\ UNCHANGED currentState
    \/ /\ req.Action = "selection-file"
       /\ \E geom \in Resolved :
             /\ SelectionFile(c, Passed(req).delay, geom)
             /\ target' = [target EXCEPT ![c] = geom]
       /\ UNCHANGED currentState
    \/ /\ req.Action = "selection-edit"
       /\ \E geom \in Resolved :
             /\ SelectionEdit(c, Passed(req).delay, geom)
             /\ target' = [target EXCEPT ![c] = geom]
       /\ UNCHANGED currentState
    \/ /\ req.Action = "selection-clipboard"
       /\ \E geom \in Resolved :
             /\ SelectionClipboard(c, Passed(req).delay, geom)
             /\ target' = [target EXCEPT ![c] = geom]
       /\ UNCHANGED currentState
    \/ /\ req.Action = "movie-selection"
       /\ \E geom \in Resolved :
             /\ MovieSelection(c, Passed(req).delay, geom)
             /\ target' = [target EXCEPT ![c] = geom]
       /\ UNCHANGED currentState
    \/ /\ req.Action = "movie-screen"
       /\ \E geom \in Resolved :
             /\ MovieScreen(c, Passed(req).delay, geom)
             /\ target' = [target EXCEPT ![c] = geom]
       /\ UNCHANGED currentState
    \/ /\ req.Action = "movie-current-window"
       /\ \E geom \in Resolved :
             /\ MovieCurrentWindow(c, Passed(req).delay, geom)
             /\ target' = [target EXCEPT ![c] = geom]
       /\ UNCHANGED currentState
    \/ /\ req.Action = "stop-recording"
       /\ StopRecording(c)
       /\ UNCHANGED <<target, currentState>>
    \/ /\ req.Action = "pause-recording"
       /\ PauseRecording(c)
       /\ UNCHANGED <<target, currentState>>
    \/ /\ req.Action = "toggle-record"
       /\ ToggleRecord(c)
       /\ UNCHANGED target
    \/ /\ req.Action = "obs-toggle-recording"
       /\ ToggleRecording(c)
       /\ UNCHANGED <<target, currentState>>
    \/ /\ req.Action = "obs-toggle-pause"
       /\ TogglePause(c)
       /\ UNCHANGED <<target, currentState>>
    \/ /\ req.Action = "waybar-status"
       /\ WaybarStatusSetIcons(c, req)
       /\ UNCHANGED <<target, currentState>>
    \/ /\ req.Action \notin KnownActions
       /\ UnknownAction(c, req)
       /\ UNCHANGED <<target, currentState>>

\* executeCommand, lines 227-334: the options are extracted, then the switch
executeCommand(c, req) ==
    /\ args' = [args EXCEPT ![c] = Passed(req)]
    /\ executeCommandSwitch(c, req)

\* A Response that carries the State only when the handler succeeded.
ResponseWithoutStateOnError(c) ==
    IF request[c].Action = "waybar-status"
    THEN [Success |-> TRUE, Message |-> result[c], HasState |-> TRUE, State |-> GetState]
    ELSE IF result[c] # "ok"
    THEN [Success |-> FALSE, Message |-> result[c], HasState |-> FALSE, State |-> NullState]
    ELSE [Success |-> TRUE, Message |-> "Command executed successfully",
          HasState |-> TRUE, State |-> GetState]

\* executeCommand, lines 322-348: the Response for what the handler returned
\* (for waybar-status, the marshalled status), with the State as it is now
Response(c) ==
    IF request[c].Action \notin KnownActions
    THEN [Success |-> FALSE, Message |-> result[c], HasState |-> FALSE, State |-> NullState]
    ELSE IF request[c].Action = "waybar-status"
    THEN [Success |-> TRUE, Message |-> result[c], HasState |-> TRUE, State |-> GetState]
    ELSE IF result[c] # "ok"
    THEN [Success |-> FALSE, Message |-> result[c], HasState |-> TRUE, State |-> GetState]
    ELSE [Success |-> TRUE, Message |-> "Command executed successfully",
          HasState |-> TRUE, State |-> GetState]

\* ------------------------------------------------ Daemon.handleConnection
\* What clients send: one Request, encoded; nothing at all; something that
\* is not a Request; or more than one document on the same connection.

Req(a, o) == [Command |-> "execute", Action |-> a, Options |-> o]

DelayOptions ==
    {<<>>, << <<"delay", Str("2")>> >>}
    \cup {<< <<"delay", Num(n)>> >> : n \in 1..MaxDelay}

\* options of the screenshot requests: none; a delay with a fraction and a
\* use_current_screen that is no boolean; a delay, a use_current_screen and
\* a key no action knows
ScreenshotOptions ==
    {<<>>,
     << <<"delay", Frac(1)>>, <<"use_current_screen", Str("true")>> >>,
     << <<"delay", Num(1)>>, <<"use_current_screen", Bool(TRUE)>>,
        <<"quality", Num(9)>> >>}

ToggleOptions ==
    {<<>>,
     << <<"start_action", Str("")>> >>,
     << <<"start_action", Num(1)>> >>,
     << <<"start_action", Str("movie-selection")>>, <<"delay", Num(0)>>,
        <<"use_current_screen", Bool(FALSE)>> >>,
     << <<"start_action", Str("movie-screen")>>, <<"delay", Num(MaxDelay)>>,
        <<"use_current_screen", Bool(TRUE)>> >>,
     << <<"start_action", Str("movie-current-window")>> >>,
     << <<"start_action", Str("bogus")>> >>}

IconOptions ==
    {<<>>,
     << <<"icons", Str("X")>> >>,
     << <<"icons", Obj(<<>>)>> >>,
     << <<"icons", Obj(<< <<"Recording", Str("X")>> >>)>> >>,
     << <<"icons", Obj(<< <<"Idle", Str("<I>")>>, <<"Paused", Num(1)>> >>)>> >>}

Requests ==
    {Req(a, o) : a \in StartActions \cup {"current-window-clipboard"}, o \in DelayOptions}
    \cup {Req(a, o) : a \in ScreenshotActions \ {"current-window-clipboard"},
                      o \in ScreenshotOptions}
    \cup {Req(a, <<>>) : a \in {"stop-recording", "pause-recording", "obs-toggle-recording",
                               "obs-toggle-pause", "bogus", ""}}
    \cup {Req("toggle-record", o) : o \in ToggleOptions}

StatusRequests == {Req("waybar-status", o) : o \in IconOptions}

NotRequests ==
    {Malformed, Str("execute"), Obj(<< <<"action", Num(1)>> >>),
     Obj(<< <<"command", Str("execute")>> >>)}

\* what a client writes on a connection for the requests rs
Streams(rs) ==
    LET docs == {Encode(r) : r \in rs} \cup NotRequests
    IN  {<<>>} \cup {<<d>> : d \in docs}
        \cup {<<d, Encode(Req("stop-recording", <<>>))>> : d \in docs}

DaemonStreams == Streams(Requests)
StatusStreams == {<<Encode(r)>> : r \in StatusRequests}

\* Daemon.Start, lines 171-183: a connection is accepted; what its client
\* sends is on the wire. Clients take turns: a connection is made when every
\* other one is over, and takes the first slot.
Accept(c, streams) ==
    /\ loop = "accepting" /\ listener = "open"
    /\ \A d \in Conns : conn[d] = "closed" /\ c <= d
    /\ pc[c] = "idle"
    /\ \E msgs \in streams : inbuf' = [inbuf EXCEPT ![c] = msgs]
    /\ conn' = [conn EXCEPT ![c] = "open"]
    /\ UNCHANGED <<request, resp, target, stats, currentState, args, failed, daemonVars>>
    /\ UNCHANGED <<stateVars, clock, fsVars, procVars, connVars, muVars>>

\* handleConnection, lines 205-208: the client has closed without a byte
handleConnectionEOF(c) ==
    /\ conn[c] = "open"
    /\ pc[c] = "idle"
    /\ inbuf[c] = <<>>
    /\ conn' = [conn EXCEPT ![c] = "closed"]
    /\ UNCHANGED <<inbuf, request, resp, target, stats, currentState, args, failed,
                   daemonVars>>
    /\ UNCHANGED <<stateVars, clock, fsVars, procVars, connVars, muVars>>

\* err.Error() of the error decoder.Decode returns for a document that is
\* not a Request
DecodeError(doc) ==
    IF doc.kind = "malformed" THEN "invalid character"
    ELSE IF doc.kind # "object" THEN "json: cannot unmarshal " \o doc.kind
    ELSE "json: cannot unmarshal field"

\* A daemon that hangs up on what is not a Request.
handleConnectionInvalidSilent(c) ==
    /\ conn[c] = "open"
    /\ pc[c] = "idle"
    /\ inbuf[c] # <<>>
    /\ ~Decodes(Head(inbuf[c]))
    /\ conn' = [conn EXCEPT ![c] = "written"]
    /\ UNCHANGED <<inbuf, resp, stats, request, target, currentState, args, daemonVars>>
    /\ UNCHANGED <<stateVars, clock, fsVars, procVars, connVars, muVars>>

\* A handler whose decode failure takes the accept loop down with it.
handleConnectionInvalidFatal(c) ==
    /\ conn[c] = "open"
    /\ pc[c] = "idle"
    /\ inbuf[c] # <<>>
    /\ ~Decodes(Head(inbuf[c]))
    /\ inbuf' = [inbuf EXCEPT ![c] = Tail(inbuf[c])]
    /\ resp' = [resp EXCEPT ![c] =
                   [Success |-> FALSE,
                    Message |-> "Invalid request: " \o DecodeError(Head(inbuf[c])),
                    HasState |-> FALSE, State |-> NullState]]
    /\ conn' = [conn EXCEPT ![c] = "written"]
    /\ stats' = [stats EXCEPT ![c].written = @ + 1]
    /\ loop' = "returned"
    /\ UNCHANGED <<request, target, currentState, args, bootVars>>
    /\ UNCHANGED <<ctx, listener, socketFile, cleanupRoutine, stop>>
    /\ UNCHANGED <<stateVars, clock, fsVars, procVars, connVars, muVars>>

\* handleConnection, lines 209-214 and 199: what was sent is not a Request
handleConnectionInvalid(c) ==
    /\ conn[c] = "open"
    /\ pc[c] = "idle"
    /\ inbuf[c] # <<>>
    /\ ~Decodes(Head(inbuf[c]))
    /\ inbuf' = [inbuf EXCEPT ![c] = Tail(inbuf[c])]
    /\ resp' = [resp EXCEPT ![c] =
                   [Success |-> FALSE,
                    Message |-> "Invalid request: " \o DecodeError(Head(inbuf[c])),
                    HasState |-> FALSE, State |-> NullState]]
    /\ conn' = [conn EXCEPT ![c] = "written"]
    /\ stats' = [stats EXCEPT ![c].written = @ + 1]
    /\ UNCHANGED <<request, target, currentState, args, daemonVars>>
    /\ UNCHANGED <<stateVars, clock, fsVars, procVars, connVars, muVars>>

\* handleConnection, lines 203-221: one Request is decoded and dispatched
handleConnection(c) ==
    /\ conn[c] = "open"
    /\ pc[c] = "idle"
    /\ inbuf[c] # <<>>
    /\ Decodes(Head(inbuf[c]))
    /\ inbuf' = [inbuf EXCEPT ![c] = Tail(inbuf[c])]
    /\ request' = [request EXCEPT ![c] = Decode(Head(inbuf[c]))]
    /\ stats' = [stats EXCEPT ![c].decoded = @ + 1, ![c].dispatched = @ + 1]
    /\ executeCommand(c, Decode(Head(inbuf[c])))
    /\ UNCHANGED <<conn, resp, failed, daemonVars>>

\* A daemon that goes back to reading when more has been sent.
handleConnectionKeepAlive(c) ==
    /\ handleConnectionClose(c)
    /\ resp' = [resp EXCEPT ![c] = Response(c)]
    /\ stats' = [stats EXCEPT ![c].written = @ + 1]
    /\ conn' = [conn EXCEPT ![c] = IF inbuf[c] # <<>> THEN "open" ELSE "written"]
    /\ UNCHANGED <<inbuf, request, target, currentState, args, daemonVars>>

\* handleConnection, lines 221-225 and 199: the Response is encoded and the
\* connection closed, whatever else the client has sent
handleConnectionRespond(c) ==
    /\ handleConnectionClose(c)
    /\ resp' = [resp EXCEPT ![c] = Response(c)]
    /\ stats' = [stats EXCEPT ![c].written = @ + 1]
    /\ conn' = [conn EXCEPT ![c] = "written"]
    /\ UNCHANGED <<inbuf, request, target, currentState, args, daemonVars>>

\* sendRequest: the client has read the Response (or the end of the stream)
\* and closes its side.
ClientClose(c) ==
    /\ conn[c] = "written"
    /\ conn' = [conn EXCEPT ![c] = "closed"]
    /\ inbuf' = [inbuf EXCEPT ![c] = <<>>]
    /\ request' = [request EXCEPT ![c] = NoRequest]
    /\ resp' = [resp EXCEPT ![c] = NoResponse]
    /\ target' = [target EXCEPT ![c] = "none"]
    /\ stats' = [stats EXCEPT ![c] = NoStats]
    /\ args' = [args EXCEPT ![c] = NoArgs]
    /\ UNCHANGED <<currentState, failed, daemonVars>>
    /\ UNCHANGED <<stateVars, clock, fsVars, procVars, connVars, muVars>>

\* The daemon serving screenshot, recording and OBS requests.
NextDaemon ==
    \/ \E c \in Conns :
          \/ Accept(c, DaemonStreams)
          \/ handleConnectionEOF(c)
          \/ handleConnectionInvalid(c) /\ UNCHANGED failed
          \/ handleConnection(c)
          \/ ToggleRecordSwitch(c, args[c].startAction, args[c].delay)
                /\ UNCHANGED <<conn, inbuf, request, resp, stats, args, failed, daemonVars>>
          \/ sleepWithCountdown(c)
          \/ startRecordingWriteCache(c)
          \/ StartWfRecorder(c)
          \/ startRecordingSetRecording(c)
          \/ StopRecordingReadCache(c)
          \/ StopRecordingFfmpeg(c)
          \/ StopRecordingSetRecording(c)
          \/ PauseRecordingSignal(c)
          \/ PauseRecordingGetState(c)
          \/ PauseRecordingSetPaused(c)
          \/ Grim(c)
          \/ AfterGrim(c)
          \/ ToggleRecordingStart(c)
          \/ ToggleRecordingStop(c)
          \/ TogglePauseStatus(c)
          \/ TogglePauseSetOBSState(c)
          \/ handleConnectionRespond(c) /\ UNCHANGED failed
          \/ ClientClose(c)
    \/ \E p \in Pids :
          \/ Watcher(p)
          \/ RecorderExit(p)

SpecDaemon == Init /\ [][NextDaemon]_vars

\* The daemon serving waybar-status requests, while the Shared State is
\* written by any caller with any arguments and the clock goes on: between
\* the requests, and between the calls a request makes into the state. (What
\* happens to the state once the status is computed does not change the
\* status sent; the State of a Response is a matter of SpecDaemon.)
Computing == \A c \in Conns : pc[c] # "done" /\ conn[c] # "written"

NextStatus ==
    \/ \E c \in Conns :
          \/ Accept(c, StatusStreams)
          \/ handleConnection(c)
          \/ WaybarStatusMarshal(c)
          \/ handleConnectionRespond(c) /\ UNCHANGED failed
          \/ ClientClose(c)
    \/ Computing /\ CallSetRecording
    \/ Computing /\ CallSetPaused
    \/ Computing /\ CallSetOBSState
    \/ Computing /\ CallSetCountdown
    \/ Computing /\ CallClearCountdown
    \/ Computing /\ Tick

SpecStatus == Init /\ [][NextStatus]_vars

\* ------------------------------------------ Daemon.Stop and what follows
MaxFail == 2      \* failures counted

\* what clients send while the daemon is being stopped
StopRequests ==
    {Req("movie-screen", << <<"delay", Num(1)>> >>), Req("stop-recording", <<>>),
     Req("selection-file", <<>>), Req("bogus", <<>>)}
StopStreams == {<<>>, <<Malformed>>} \cup {<<Encode(r)>> : r \in StopRequests}

\* (for the claims) one more request has been answered with a failure
CountFailure(is) ==
    failed' = IF is /\ failed < MaxFail THEN failed + 1 ELSE failed

\* Start, lines 164-168: SIGTERM or SIGINT arrives and the signal goroutine
\* calls Stop
Signal ==
    /\ stop = "idle"
    /\ stop' = "cancel"
    /\ UNCHANGED <<ctx, listener, socketFile, loop, cleanupRoutine>>
    /\ UNCHANGED <<conn, inbuf, request, resp, target, stats, currentState, args, failed, bootVars>>
    /\ UNCHANGED <<stateVars, clock, fsVars, procVars, connVars, muVars>>

\* Stop, line 189: d.cancel()
StopCancel ==
    /\ stop = "cancel"
    /\ ctx' = "cancelled"
    /\ stop' = "close"
    /\ UNCHANGED <<listener, socketFile, loop, cleanupRoutine>>
    /\ UNCHANGED <<conn, inbuf, request, resp, target, stats, currentState, args, failed, bootVars>>
    /\ UNCHANGED <<stateVars, clock, fsVars, procVars, connVars, muVars>>

\* A Stop that leaves the listener open.
StopCloseSkipped ==
    /\ stop = "close"
    /\ stop' = "remove"
    /\ UNCHANGED <<ctx, listener, socketFile, loop, cleanupRoutine>>
    /\ UNCHANGED <<conn, inbuf, request, resp, target, stats, currentState, args, failed, bootVars>>
    /\ UNCHANGED <<stateVars, clock, fsVars, procVars, connVars, muVars>>

\* Stop, lines 191-193: d.listener.Close(), which unlinks the socket file
\* the listener created
StopClose ==
    /\ stop = "close"
    /\ listener' = "closed"
    /\ socketFile' = FALSE
    /\ stop' = "remove"
    /\ UNCHANGED <<ctx, loop, cleanupRoutine>>
    /\ UNCHANGED <<conn, inbuf, request, resp, target, stats, currentState, args, failed, bootVars>>
    /\ UNCHANGED <<stateVars, clock, fsVars, procVars, connVars, muVars>>

\* Stop, line 195: os.Remove(d.cfg.SocketPath)
StopRemove ==
    /\ stop = "remove"
    /\ socketFile' = FALSE
    /\ stop' = "done"
    /\ UNCHANGED <<ctx, listener, loop, cleanupRoutine>>
    /\ UNCHANGED <<conn, inbuf, request, resp, target, stats, currentState, args, failed, bootVars>>
    /\ UNCHANGED <<stateVars, clock, fsVars, procVars, connVars, muVars>>

\* Start, lines 171-181: Accept fails on the closed listener; the context
\* is done and Start returns nil (with a live context the loop goes on)
StartReturn ==
    /\ loop = "accepting"
    /\ listener = "closed"
    /\ loop' = IF ctx = "cancelled" THEN "returned" ELSE "accepting"
    /\ UNCHANGED <<ctx, listener, socketFile, cleanupRoutine, stop>>
    /\ UNCHANGED <<conn, inbuf, request, resp, target, stats, currentState, args, failed, bootVars>>
    /\ UNCHANGED <<stateVars, clock, fsVars, procVars, connVars, muVars>>

\* cleanupRoutine, lines 358-365: <-d.ctx.Done()
cleanupRoutineReturn ==
    /\ cleanupRoutine = "running"
    /\ ctx = "cancelled"
    /\ cleanupRoutine' = "returned"
    /\ UNCHANGED <<ctx, listener, socketFile, loop, stop>>
    /\ UNCHANGED <<conn, inbuf, request, resp, target, stats, currentState, args, failed, bootVars>>
    /\ UNCHANGED <<stateVars, clock, fsVars, procVars, connVars, muVars>>

\* exec.CommandContext(ctx, "wf-recorder", ...): once the context is done
\* the goroutine cmd.Start() left behind kills the recorder
CtxKill(p) ==
    /\ ctx = "cancelled"
    /\ loop # "exited"
    /\ proc[p] = "running"
    /\ proc' = [proc EXCEPT ![p] = "killed"]
    /\ procPaused' = [procPaused EXCEPT ![p] = FALSE]
    /\ UNCHANGED <<stateVars, clock, muVars, netVars, fsVars, watcher, connVars>>

\* main, daemonCommand lines 69-70: Start has returned, the command returns
\* and the process exits; every goroutine still running ends where it is,
\* and the connections are closed with nothing more written.
Exit ==
    /\ loop = "returned"
    /\ loop' = "exited"
    /\ pc' = [c \in Conns |-> IF pc[c] = "idle" THEN "idle" ELSE "aborted"]
    /\ conn' = [c \in Conns |-> IF conn[c] = "open" THEN "closed" ELSE conn[c]]
    /\ watcher' = [p \in Pids |-> IF watcher[p] = "waiting" THEN "aborted" ELSE watcher[p]]
    /\ cleanupRoutine' = IF cleanupRoutine = "running" THEN "aborted" ELSE cleanupRoutine
    /\ stop' = IF stop = "done" THEN "done" ELSE "aborted"
    /\ UNCHANGED <<ctx, listener, socketFile>>
    /\ UNCHANGED <<inbuf, request, resp, target, stats, currentState, args, failed, bootVars>>
    /\ UNCHANGED <<stateVars, clock, fsVars, proc, procPaused, muVars>>
    /\ UNCHANGED <<action, i, base, cmd, newPausedState, status, result, pre, alone>>

\* The daemon with its clients taking turns, stopped at any moment.
NextStop ==
    \/ \E c \in Conns :
          \/ Accept(c, StopStreams)
          \/ handleConnectionEOF(c)
          \/ handleConnectionInvalid(c) /\ CountFailure(TRUE)
          \/ handleConnection(c)
          \/ sleepWithCountdown(c)
          \/ startRecordingWriteCache(c)
          \/ StartWfRecorder(c)
          \/ startRecordingSetRecording(c)
          \/ StopRecordingReadCache(c)
          \/ StopRecordingFfmpeg(c)
          \/ StopRecordingSetRecording(c)
          \/ Grim(c)
          \/ AfterGrim(c)
          \/ handleConnectionRespond(c) /\ CountFailure(~Response(c).Success)
          \/ ClientClose(c)
    \/ \E p \in Pids :
          \/ Watcher(p)
          \/ CtxKill(p)
    \/ Signal
    \/ StopCancel
    \/ StopClose
    \/ StopRemove
    \/ StartReturn
    \/ cleanupRoutineReturn
    \/ Exit

\* Stop runs to its end unless the process exits first; the accept loop and
\* the cleanup goroutine are woken by what Stop does.
SpecStop ==
    /\ Init /\ [][NextStop]_vars
    /\ WF_vars(StopCancel) /\ WF_vars(StopClose) /\ WF_vars(StopRemove)
    /\ WF_vars(StartReturn) /\ WF_vars(cleanupRoutineReturn)

\* ------------------------------------- a stuck client and a status client
\* what the first client sends: nothing, or a request whose handler waits
\* (a countdown, slurp, ffmpeg)
StuckStreams ==
    {<<>>} \cup
    {<<Encode(r)>> : r \in {Req("movie-screen", << <<"delay", Num(2)>> >>),
                            Req("selection-file", <<>>),
                            Req("stop-recording", <<>>)}}

\* what the second client sends
WaybarStreams == {<<Encode(Req("waybar-status", <<>>))>>}

\* sendRequest: a client connects and writes its request; the connection
\* waits in the listener's queue
Dial(c, streams) ==
    /\ listener = "open"
    /\ conn[c] = "closed"
    /\ pc[c] = "idle"
    /\ \E msgs \in streams : inbuf' = [inbuf EXCEPT ![c] = msgs]
    /\ conn' = [conn EXCEPT ![c] = "dialed"]
    /\ UNCHANGED <<request, resp, target, stats, currentState, args, failed, daemonVars>>
    /\ UNCHANGED <<stateVars, clock, fsVars, procVars, connVars, muVars>>

\* An accept loop that serves the connection itself: handleConnection(conn)
\* without the go statement.
StartAcceptInline(c) ==
    /\ loop = "accepting" /\ listener = "open"
    /\ conn[c] = "dialed"
    /\ \A d \in Conns \ {c} : conn[d] # "open"
    /\ conn' = [conn EXCEPT ![c] = "open"]
    /\ UNCHANGED <<inbuf, request, resp, target, stats, currentState, args, failed, daemonVars>>
    /\ UNCHANGED <<stateVars, clock, fsVars, procVars, connVars, muVars>>

\* Start, lines 171-183: Accept returns a waiting connection and the loop
\* goes on after `go d.handleConnection(conn)`, whatever the other handlers
\* are doing
StartAccept(c) ==
    /\ loop = "accepting" /\ listener = "open"
    /\ conn[c] = "dialed"
    /\ conn' = [conn EXCEPT ![c] = "open"]
    /\ UNCHANGED <<inbuf, request, resp, target, stats, currentState, args, failed, daemonVars>>
    /\ UNCHANGED <<stateVars, clock, fsVars, procVars, connVars, muVars>>

\* The daemon with two clients at once: the first may stay silent or keep
\* its handler waiting, the second asks for the waybar status.
NextStuck ==
    \/ Dial(1, StuckStreams)
    \/ Dial(2, WaybarStreams)
    \/ \E c \in Conns :
          \/ StartAccept(c)
          \/ handleConnectionEOF(c)
          \/ handleConnection(c)
          \/ sleepWithCountdown(c)
          \/ startRecordingWriteCache(c)
          \/ StartWfRecorder(c)
          \/ startRecordingSetRecording(c)
          \/ StopRecordingReadCache(c)
          \/ StopRecordingFfmpeg(c)
          \/ StopRecordingSetRecording(c)
          \/ Grim(c)
          \/ AfterGrim(c)
          \/ WaybarStatusMarshal(c)
          \/ handleConnectionRespond(c) /\ UNCHANGED failed
          \/ ClientClose(c)
    \/ \E p \in Pids :
          \/ Watcher(p)
          \/ RecorderExit(p)

\* The accept loop and the second connection's goroutine are scheduled;
\* nothing is asked of the first client, its handler or the tools it waits
\* for.
SpecStuck ==
    /\ Init /\ [][NextStuck]_vars
    /\ WF_vars(StartAccept(2))
    /\ WF_vars(handleConnection(2))
    /\ WF_vars(WaybarStatusMarshal(2))
    /\ WF_vars(handleConnectionRespond(2) /\ UNCHANGED failed)

\* ------------------------------------------------ auto-start of the daemon
\* No daemon runs and no socket file is there: Start has not been called.
InitAutoStart ==
    /\ InitNew
    /\ ctx = "live"
    /\ listener = "closed"
    /\ socketFile = FALSE
    /\ loop = "none"
    /\ cleanupRoutine = "none"
    /\ stop = "idle"
    /\ client = [k \in Clients |-> "idle"]
    /\ tries = [k \in Clients |-> 0]
    /\ daemon = [d \in Daemons |-> "none"]
    /\ path = 0

bootFrame == UNCHANGED <<stateVars, clock, fsVars, procVars, connVars, muVars>>
             /\ UNCHANGED <<conn, inbuf, request, resp, target, stats, currentState, args, failed>>
             /\ UNCHANGED <<ctx, listener, socketFile, loop, cleanupRoutine, stop>>

\* isDaemonRunning, main.go lines 323-330: net.Dial succeeds when the path
\* names the socket of a daemon that listens
isDaemonRunning == path # 0 /\ daemon[path] = "listening"

\* A client command is run.
Invoke(k) ==
    /\ client[k] = "idle"
    /\ client' = [client EXCEPT ![k] = "probe"]
    /\ UNCHANGED <<tries, daemon, path>>
    /\ bootFrame

\* ensureDaemonRunning, line 290: the first probe
ensureDaemonRunning(k) ==
    /\ client[k] = "probe"
    /\ client' = [client EXCEPT ![k] = IF isDaemonRunning THEN "ready" ELSE "spawn"]
    /\ UNCHANGED <<tries, daemon, path>>
    /\ bootFrame

\* startDaemon, main.go lines 332-351: `exe daemon` is started and released,
\* or cmd.Start() fails
startDaemon(k) ==
    /\ client[k] = "spawn"
    /\ \/ /\ client' = [client EXCEPT ![k] = "failed"]
          /\ UNCHANGED daemon
       \/ /\ \E d \in Daemons :
                /\ daemon[d] = "none"
                /\ \A e \in Daemons : daemon[e] = "none" => d <= e
                /\ daemon' = [daemon EXCEPT ![d] = "started"]
          /\ client' = [client EXCEPT ![k] = "wait"]
    /\ UNCHANGED <<tries, path>>
    /\ bootFrame

\* ensureDaemonRunning, lines 295-303: one probe of the loop, or the error
\* after the last one
ensureDaemonRunningWait(k) ==
    /\ client[k] = "wait"
    /\ IF tries[k] = MaxTries
       THEN /\ client' = [client EXCEPT ![k] = "failed"]
            /\ UNCHANGED tries
       ELSE IF isDaemonRunning
       THEN /\ client' = [client EXCEPT ![k] = "ready"]
            /\ UNCHANGED tries
       ELSE /\ tries' = [tries EXCEPT ![k] = tries[k] + 1]
            /\ UNCHANGED client
    /\ UNCHANGED <<daemon, path>>
    /\ bootFrame

\* The client command ends.
ClientExit(k) ==
    /\ client[k] \in {"ready", "failed"}
    /\ client' = [client EXCEPT ![k] = "idle"]
    /\ tries' = [tries EXCEPT ![k] = 0]
    /\ UNCHANGED <<daemon, path>>
    /\ bootFrame

\* Start, config.go line 142: os.Remove(d.cfg.SocketPath)
StartRemove(d) ==
    /\ daemon[d] = "started"
    /\ path' = 0
    /\ daemon' = [daemon EXCEPT ![d] = "removed"]
    /\ UNCHANGED <<client, tries>>
    /\ bootFrame

\* Start, lines 144-153: net.Listen binds the path when no file is there
\* and fails when one is (the address is in use); Start returns the error
StartListen(d) ==
    /\ daemon[d] = "removed"
    /\ IF path = 0
       THEN /\ path' = d
            /\ daemon' = [daemon EXCEPT ![d] = "listening"]
       ELSE /\ daemon' = [daemon EXCEPT ![d] = "failed"]
            /\ UNCHANGED path
    /\ UNCHANGED <<client, tries>>
    /\ bootFrame

\* A daemon is killed where it stands (SIGKILL): its socket file stays.
Crash(d) ==
    /\ daemon[d] = "listening"
    /\ daemon' = [daemon EXCEPT ![d] = "dead"]
    /\ UNCHANGED <<client, tries, path>>
    /\ bootFrame

NextAutoStart ==
    \/ \E k \in Clients :
          \/ Invoke(k)
          \/ ensureDaemonRunning(k)
          \/ startDaemon(k)
          \/ ensureDaemonRunningWait(k)
          \/ ClientExit(k)
    \/ \E d \in Daemons :
          \/ StartRemove(d)
          \/ StartListen(d)
          \/ Crash(d)

SpecAutoStart == InitAutoStart /\ [][NextAutoStart]_vars

\* ------------------------------------------- State.mu, field by field
\* Goroutines call SetRecording (as startRecording and its watcher do),
\* GetState and GetWaybarStatus; every method takes the lock, touches the
\* fields one after the other and releases the lock as it returns.

\* sync.RWMutex: Lock waits for the writer and the readers to leave, RLock
\* for the writer.
CanRLockAlways == TRUE

CanLock == ~mu.writer /\ mu.readers = 0

CanRLock == ~mu.writer

Fields ==
    [recording |-> recording, paused |-> paused, recordingFile |-> recordingFile,
     recordingPID |-> recordingPID, recordingStartTime |-> recordingStartTime,
     obsRecording |-> obsRecording, obsPaused |-> obsPaused,
     countdownRemaining |-> countdownRemaining]

Calling(g, m) == call[g].method = m

\* A goroutine enters a method: s.mu.Lock() or s.mu.RLock().
Enter(g, c) ==
    /\ at[g] = "idle"
    /\ calls[g] < MaxOps
    /\ calls' = [calls EXCEPT ![g] = calls[g] + 1]
    /\ call' = [call EXCEPT ![g] = c]
    /\ got' = [got EXCEPT ![g] = NoFields]
    /\ ret' = [ret EXCEPT ![g] = NoFields]
    /\ locked' = [locked EXCEPT ![g] = Fields]
    /\ at' = [at EXCEPT ![g] = "1"]

LockedSetRecording(g) ==
    /\ CanLock
    /\ mu' = [mu EXCEPT !.writer = TRUE]
    /\ \E start \in BOOLEAN :
          Enter(g, IF start
                   THEN [method |-> "SetRecording", recording |-> TRUE,
                         file |-> "recording-ts.avi", pid |-> 1]
                   ELSE [method |-> "SetRecording", recording |-> FALSE,
                         file |-> "", pid |-> 0])
    /\ UNCHANGED <<stateVars, clock, fsVars, procVars, connVars, netVars>>

\* SetRecording, lines 80-88, one assignment at a time, then the deferred Unlock
SetRecordingFields(g) ==
    /\ Calling(g, "SetRecording")
    /\ \/ /\ at[g] = "1"
          /\ recording' = call[g].recording
          /\ at' = [at EXCEPT ![g] = "2"]
          /\ UNCHANGED <<recordingFile, recordingPID, recordingStartTime, mu>>
       \/ /\ at[g] = "2"
          /\ recordingFile' = call[g].file
          /\ at' = [at EXCEPT ![g] = "3"]
          /\ UNCHANGED <<recording, recordingPID, recordingStartTime, mu>>
       \/ /\ at[g] = "3"
          /\ recordingPID' = call[g].pid
          /\ recordingStartTime' = IF call[g].recording THEN clock ELSE ZeroTime
          /\ mu' = [mu EXCEPT !.writer = FALSE]
          /\ at' = [at EXCEPT ![g] = "idle"]
          /\ UNCHANGED <<recording, recordingFile>>
    /\ UNCHANGED <<paused, obsRecording, obsPaused, countdownRemaining, icons,
                   clock, fsVars, procVars, connVars, netVars, call, got, ret, locked,
                   calls>>

LockedGetState(g) ==
    /\ CanRLock
    /\ mu' = [mu EXCEPT !.readers = mu.readers + 1]
    /\ Enter(g, [NoCall EXCEPT !.method = "GetState"])
    /\ UNCHANGED <<stateVars, clock, fsVars, procVars, connVars, netVars>>

\* GetState, lines 66-72: the fields are copied in the order of the literal,
\* then the deferred RUnlock
GetStateFields(g) ==
    /\ Calling(g, "GetState")
    /\ \/ /\ at[g] = "1"
          /\ got' = [got EXCEPT ![g] = [Recording |-> recording, Paused |-> paused]]
          /\ at' = [at EXCEPT ![g] = "2"]
          /\ UNCHANGED <<mu, ret>>
       \/ /\ at[g] = "2"
          /\ ret' = [ret EXCEPT ![g] =
                        [Recording |-> got[g].Recording, Paused |-> got[g].Paused,
                         RecordingFile |-> recordingFile,
                         OBSRecording |-> obsRecording, OBSPaused |-> obsPaused]]
          /\ mu' = [mu EXCEPT !.readers = mu.readers - 1]
          /\ at' = [at EXCEPT ![g] = "idle"]
          /\ UNCHANGED got
    /\ UNCHANGED <<stateVars, clock, fsVars, procVars, connVars, netVars, call, locked, calls>>

LockedGetWaybarStatus(g) ==
    /\ CanRLock
    /\ mu' = [mu EXCEPT !.readers = mu.readers + 1]
    /\ Enter(g, [NoCall EXCEPT !.method = "GetWaybarStatus"])
    /\ UNCHANGED <<stateVars, clock, fsVars, procVars, connVars, netVars>>

\* GetWaybarStatus, lines 133-184: the conditions are read first, the fields
\* formatted into the status after them, then the deferred RUnlock
GetWaybarStatusFields(g) ==
    /\ Calling(g, "GetWaybarStatus")
    /\ \/ /\ at[g] = "1"
          /\ got' = [got EXCEPT ![g] =
                        [countdownRemaining |-> countdownRemaining,
                         recording |-> recording, paused |-> paused]]
          /\ at' = [at EXCEPT ![g] = "2"]
          /\ UNCHANGED <<mu, ret>>
       \/ /\ at[g] = "2"
          /\ ret' = [ret EXCEPT ![g] =
                        WaybarStatusOf(got[g].countdownRemaining, got[g].recording,
                                       got[g].paused, recordingFile, recordingStartTime,
                                       obsRecording, obsPaused, icons, clock)]
          /\ mu' = [mu EXCEPT !.readers = mu.readers - 1]
          /\ at' = [at EXCEPT ![g] = "idle"]
          /\ UNCHANGED got
    /\ UNCHANGED <<stateVars, clock, fsVars, procVars, connVars, netVars, call, locked, calls>>

NextLocked ==
    \E g \in Goroutines :
        \/ LockedSetRecording(g)
        \/ SetRecordingFields(g)
        \/ LockedGetState(g)
        \/ GetStateFields(g)
        \/ LockedGetWaybarStatus(g)
        \/ GetWaybarStatusFields(g)

SpecLocked == Init /\ [][NextLocked]_vars

\* ------------------------------------------------------------------ claims

\* Which of the four kinds of status a WaybarStatus is, read off its tooltip
\* and class.
StatusKind(s) ==
    IF s.Class = "countdown" THEN "countdown"
    ELSE IF s.Tooltip[1] \in {"Recording paused", "Recording: %s (%02d:%02d)"} THEN "local"
    ELSE IF s.Tooltip[1] \in {"OBS recording paused", "OBS recording in progress"} THEN "obs"
    ELSE "idle"

\* C1: in every state reachable by any sequence of SetRecording, SetPaused,
\* SetOBSState, SetCountdown and ClearCountdown calls, GetWaybarStatus is the
\* countdown status iff countdownRemaining > 0; otherwise the local-recording
\* status (class paused/recording by paused) iff recording; otherwise the OBS
\* status (class by obsPaused) iff obsRecording; otherwise the idle status.
C1_StatusPriority ==
    LET s == GetWaybarStatus
        k == StatusKind(s)
    IN  /\ (k = "countdown") <=> (countdownRemaining > 0)
        /\ (k = "local") <=> (countdownRemaining <= 0 /\ recording)
        /\ (k = "obs") <=> (countdownRemaining <= 0 /\ ~recording /\ obsRecording)
        /\ (k = "idle") <=> (countdownRemaining <= 0 /\ ~recording /\ ~obsRecording)
        /\ k = "countdown" => s.Text = <<icons.Countdown, countdownRemaining>>
        /\ k = "local" => s.Class = (IF paused THEN "paused" ELSE "recording")
        /\ k = "obs" => s.Class = (IF obsPaused THEN "paused" ELSE "recording")
        /\ k = "idle" => s.Class = "idle"
        /\ s.Alt = s.Class

\* Both recordings active, no countdown: the local recording drives the status.
C1_Witness ==
    /\ countdownRemaining <= 0
    /\ recording /\ paused
    /\ obsRecording /\ ~obsPaused
    /\ GetWaybarStatus.Tooltip = <<"Recording paused">>

Running == {p \in Pids : proc[p] = "running"}

Returns(c) == InFlight(c) /\ pc'[c] = "done"

\* C2: at most one recorder process launched by the daemon is running; a
\* start action served while one is running launches no second one (here:
\* a start action served with no other request in flight).
C2_AtMostOneRecorder ==
    [][\A c \in Conns :
          (pc[c] = "launch" /\ pc'[c] = "setrecording" /\ alone[c])
          => Cardinality(Running') <= 1]_vars

Cleared == ~recording /\ recordingFile = "" /\ recordingPID = 0

\* C3: after SetRecording(true, file, pid), once the recorder process has
\* terminated, whatever ended it, the state eventually is recording = false,
\* recordingFile = "", recordingPID = 0.
C3_ExitEventuallyClears ==
    \A p \in Pids : (watcher[p] = "waiting" /\ proc[p] = "exited") ~> Cleared

\* The recorder crashed by itself, no stop was asked for, and the watcher has
\* reset the state.
C3_Witness ==
    /\ \E p \in Pids : watcher[p] = "done"
    /\ \A c \in Conns : pc[c] = "idle"
    /\ cacheFile # ""
    /\ Cleared

\* C4: a tracked process id or file name implies recording; no operation
\* leaves one behind once recording is false.
C4_TrackedOnlyWhileRecording ==
    /\ recordingPID # 0 => recording
    /\ recordingFile # "" => recording

\* A recording was tracked and its watcher has reset the state.
C4_Witness ==
    /\ \E p \in Pids : watcher[p] = "done"
    /\ ~recording /\ recordingPID = 0 /\ recordingFile = ""

\* C6: countdownRemaining is 0 at the moment a handler launches its capture
\* tool or its recorder, and is above 0 only while some delayed request is
\* still counting down.
C6_CountdownZeroAtLaunch ==
    /\ [][\A c \in Conns :
            (pc[c] \in {"launch", "grim"} /\ pc'[c] # pc[c])
            => countdownRemaining = 0]_vars
    /\ [](countdownRemaining > 0 => \E c \in Conns : pc[c] = "countdown")

\* C7: PauseRecording with no tracked process id returns an error, sends no
\* signal and changes no field of the Shared State.
C7_PauseWithoutPID ==
    [][\A c \in Conns :
          (pc[c] = "idle" /\ action'[c] = "pause-recording" /\ recordingPID = 0)
          => /\ pc'[c] = "done"
             /\ result'[c] = "no recording in progress"
             /\ UNCHANGED stateVars
             /\ UNCHANGED procPaused]_vars

\* A pause request was refused after a recording had been made and stopped.
C7_Witness ==
    \E c \in Conns :
        /\ pc[c] = "done" /\ action[c] = "pause-recording"
        /\ result[c] = "no recording in progress"
        /\ mp4Files # {}

\* C8: when the cache file cannot be read StopRecording returns an error and
\* recording, recordingFile and recordingPID are as they were at the call
\* (here: for a call during which no other request was served).
C8_StopUnreadableCacheKeepsState ==
    [][\A c \in Conns :
          (action[c] = "stop-recording" /\ Returns(c) /\ alone[c]
             /\ result'[c] = "failed to read cache file")
          => Tracked' = pre[c].tracked]_vars

\* C9: when StopRecording has found the cache file and the raw file, the
\* state is cleared on return whether or not the conversion succeeded (here:
\* for a call during which no other request was served).
C9_StopClearsState ==
    [][\A c \in Conns :
          (action[c] = "stop-recording" /\ Returns(c) /\ alone[c]
             /\ pc[c] \in {"convert", "clear"})
          => (~recording' /\ recordingFile' = "" /\ recordingPID' = 0)]_vars

\* C10, as stated: StopRecording called with recording == false fails with
\* the cache-file read error, converts nothing, deletes nothing and leaves
\* the state as it was (here: for a call during which no other request was
\* served).
C10_StopWhenNotRecordingFails ==
    [][\A c \in Conns :
          (action[c] = "stop-recording" /\ alone[c] /\ ~pre[c].tracked.recording
             /\ pc[c] = "readcache" /\ pc'[c] # "readcache")
          => /\ pc'[c] = "done"
             /\ result'[c] = "failed to read cache file"
             /\ Tracked' = pre[c].tracked]_vars

\* C10, amended: StopRecording called with recording == false and no cache
\* file, no other request being served meanwhile, fails with the cache-file
\* read error straight from the read (no conversion, no removal), no step of
\* it writes the state or a file, and the tracked fields are as at the call.
C10_StopWithoutCacheFails ==
    [][\A c \in Conns :
          (action'[c] = "stop-recording" /\ alone'[c]
             /\ ~pre'[c].tracked.recording /\ pre'[c].cacheFile = ""
             /\ pc'[c] # pc[c])
          => /\ UNCHANGED <<stateVars, fsVars>>
             /\ pc'[c] \in {"readcache", "done"}
             /\ pc'[c] = "done" =>
                   /\ pc[c] = "readcache"
                   /\ result'[c] = "failed to read cache file"
                   /\ Tracked' = pre[c].tracked]_vars

\* Stop is refused after an earlier recording was stopped and converted.
C10_Witness ==
    \E c \in Conns :
        /\ pc[c] = "done" /\ action[c] = "stop-recording" /\ alone[c]
        /\ ~pre[c].tracked.recording /\ pre[c].cacheFile = ""
        /\ result[c] = "failed to read cache file"
        /\ mp4Files # {}

Returned(g, m) == at[g] = "idle" /\ Calling(g, m) /\ ret[g] # NoFields

\* C5: every snapshot and every status returned is the projection of the
\* Shared State at one instant, the one at which the reader took the lock;
\* in particular no reader sees recording = true with an empty file name, or
\* recording = false with a file name.
C5_NoTornRead ==
    \A g \in Goroutines :
        /\ Returned(g, "GetState") =>
              /\ ret[g] = [Recording |-> locked[g].recording,
                           Paused |-> locked[g].paused,
                           RecordingFile |-> locked[g].recordingFile,
                           OBSRecording |-> locked[g].obsRecording,
                           OBSPaused |-> locked[g].obsPaused]
              /\ ret[g].Recording <=> ret[g].RecordingFile # ""
        /\ Returned(g, "GetWaybarStatus") =>
              /\ ret[g] = WaybarStatusOf(locked[g].countdownRemaining,
                                         locked[g].recording, locked[g].paused,
                                         locked[g].recordingFile,
                                         locked[g].recordingStartTime,
                                         locked[g].obsRecording, locked[g].obsPaused,
                                         icons, clock)
              /\ ret[g].Class = "recording" => ret[g].Tooltip[2] # ""

\* Two readers have returned, one before and one after a recording start,
\* while a third goroutine is in the middle of SetRecording(false, "", 0).
C5_Witness ==
    /\ \E g \in Goroutines : Returned(g, "GetState") /\ ret[g].Recording
    /\ \E g \in Goroutines : Returned(g, "GetWaybarStatus") /\ ret[g].Class = "idle"
    /\ \E g \in Goroutines : Calling(g, "SetRecording") /\ at[g] = "2" /\ ~recording

\* The step of connection c in which ToggleRecord decides.
Switches(c) == pc[c] = "toggle" /\ pc'[c] # "toggle"

\* C11: ToggleRecord, when the state it read says recording, does what
\* StopRecording does (every recorder is signalled, the cache file is read
\* next, no recorder is launched, start_action plays no part); when it says
\* not recording, the handler that start_action names runs and no recorder
\* is signalled. A toggle that stops never reaches a step of a start
\* handler, and a toggle that starts never reaches a step of StopRecording.
C11_ToggleIsStopOrStart ==
    /\ [][\A c \in Conns :
             Switches(c) =>
                IF currentState[c].Recording
                THEN /\ action'[c] = "stop-recording"
                     /\ pc'[c] = "readcache"
                     /\ proc' = Killall
                     /\ UNCHANGED <<stateVars, fsVars, watcher>>
                ELSE /\ proc' = proc
                     /\ StartActionOf(request[c]) \in StartActions
                           => action'[c] = StartActionOf(request[c])]_vars
    /\ [](\A c \in Conns :
             request[c].Action = "toggle-record" =>
                /\ action[c] = "stop-recording"
                      => pc[c] \in {"readcache", "convert", "clear", "done"}
                /\ action[c] \in StartActions
                      => pc[c] \in {"countdown", "start", "launch", "setrecording", "done"})

\* A toggle-record that asked for movie-screen is converting the recording
\* it stopped.
C11_Witness ==
    \E c \in Conns :
        /\ request[c].Action = "toggle-record"
        /\ StartActionOf(request[c]) = "movie-screen"
        /\ action[c] = "stop-recording"
        /\ pc[c] = "convert"

\* The start_action a toggle-record request carries, as sent.
AsksFor(c) ==
    IF Is(request[c].Options, "start_action", "string")
    THEN Get(request[c].Options, "start_action").text
    ELSE ""

\* C12: ToggleRecord, not recording, with a start_action that is none of the
\* three start actions, returns an error at once: no external tool has run,
\* the cache file and every field of the Shared State are as they were.
C12_ToggleInvalidStartAction ==
    [][\A c \in Conns :
          /\ (pc[c] = "idle" /\ pc'[c] = "toggle")
                => UNCHANGED <<stateVars, fsVars, procVars>>
          /\ (Switches(c) /\ ~currentState[c].Recording
                /\ AsksFor(c) \notin StartActions \cup {""})
                => /\ pc'[c] = "done"
                   /\ result'[c] = "invalid start action: " \o AsksFor(c)
                   /\ UNCHANGED <<stateVars, fsVars, procVars>>]_vars

C12_Witness ==
    \E c \in Conns :
        /\ request[c].Action = "toggle-record"
        /\ pc[c] = "done"
        /\ result[c] = "invalid start action: bogus"
        /\ ~recording

\* C13: a start action whose capture target resolves to an error or to an
\* empty result returns an error in that very step: no recorder is launched,
\* the cache file is not written, no field of the Shared State has changed.
C13_NoTargetNoStart ==
    [][\A c \in Conns :
          (pc[c] \in {"idle", "toggle"} /\ pc'[c] \notin {"idle", "toggle"}
             /\ action'[c] \in StartActions /\ target'[c] \in {"error", "empty"})
          => /\ pc'[c] = "done"
             /\ result'[c] # "ok"
             /\ UNCHANGED <<stateVars, fsVars, procVars>>]_vars

\* C14: with no recorder running, the base name startRecording writes to
\* the cache file is the name of no raw and no converted file there is, and
\* carries the process-id suffix when a file with the timestamp base name
\* exists.
C14_NeverReusesFile ==
    [][\A c \in Conns :
          (pc[c] = "start" /\ pc'[c] = "launch" /\ Running = {})
          => /\ base'[c] \notin aviFiles \cup mp4Files
             /\ GenerateRecordingBase \in aviFiles \cup mp4Files
                   => base'[c] = GenerateRecordingBase \o "-pid"]_vars

UnknownRequests == {r \in Requests : r.Action \notin KnownActions}

\* C15: a Request with an action that is not known, encoded by the client
\* and decoded by the daemon, reaches no handler and no external tool and
\* changes no field of the Shared State; the Response is a failure with the
\* message "Unknown action: <name>" and no State.
C15_UnknownAction ==
    [][\A c \in Conns :
          /\ \A r \in UnknownRequests :
                (conn[c] = "open" /\ pc[c] = "idle" /\ inbuf[c] # <<>>
                   /\ Head(inbuf[c]) = Encode(r) /\ stats'[c].dispatched = 1)
                => /\ pc'[c] = "done"
                   /\ result'[c] = "Unknown action: " \o r.Action
                   /\ UNCHANGED <<stateVars, fsVars, procVars>>
          /\ (pc[c] = "done" /\ pc'[c] = "idle" /\ request[c].Action \notin KnownActions)
                => /\ resp'[c] = [Success |-> FALSE,
                                  Message |-> "Unknown action: " \o request[c].Action,
                                  HasState |-> FALSE, State |-> NullState]
                   /\ UNCHANGED <<stateVars, fsVars, procVars>>]_vars

C15_Witness ==
    \E c \in Conns :
        /\ conn[c] = "written"
        /\ request[c] = Req("bogus", <<>>)
        /\ resp[c].Message = "Unknown action: bogus"
        /\ ~resp[c].Success

\* C16: for an action routed to a handler, the Response written carries the
\* Shared State as it is once the handler has returned; it is a failure with
\* the handler's error text when the handler returned an error, and a
\* success when it did not.
C16_HandlerResponse ==
    [][\A c \in Conns :
          (pc[c] = "done" /\ pc'[c] = "idle"
             /\ request[c].Action \in KnownActions \ {"waybar-status"})
          => /\ resp'[c].HasState
             /\ resp'[c].State =
                   [Recording |-> recording, Paused |-> paused,
                    RecordingFile |-> recordingFile,
                    OBSRecording |-> obsRecording, OBSPaused |-> obsPaused]
             /\ resp'[c].Success = (result[c] = "ok")
             /\ result[c] # "ok" => resp'[c].Message = result[c]]_vars

\* A failure Response that reports a recording still going on.
C16_Witness ==
    \E c \in Conns :
        /\ conn[c] = "written"
        /\ request[c].Action = "stop-recording"
        /\ ~resp[c].Success
        /\ resp[c].Message = "failed to convert video"
        /\ resp[c].HasState
        /\ resp[c].State.Recording

\* C20: on a connection the daemon decodes at most one Request, dispatches
\* at most once and writes at most one Response, and the connection is
\* closed once the Response is written, whatever else the client has sent.
C20_OneRequestPerConnection ==
    /\ [](\A c \in Conns :
             stats[c].decoded <= 1 /\ stats[c].dispatched <= 1 /\ stats[c].written <= 1)
    /\ [][\A c \in Conns :
             stats'[c].written > stats[c].written => conn'[c] = "written"]_vars

\* A second request was sent, the first one is answered, the connection is
\* closed.
C20_Witness ==
    \E c \in Conns :
        /\ conn[c] = "written"
        /\ inbuf[c] # <<>>
        /\ stats[c] = [decoded |-> 1, dispatched |-> 1, written |-> 1]


\* The icons map of the waybar-status request a connection is serving, and
\* whether the request carries one.
HasIconsMap(req) == req.Action = "waybar-status" /\ Is(req.Options, "icons", "object")
IconsMapOf(req) == Get(req.Options, "icons").members

\* C17: a waybar-status request changes no field of the Shared State but the
\* icons, in which every glyph the request supplies is set; the message is
\* the JSON encoding of the status computed from the state as it then is,
\* and the Response sent says success and carries that message.
C17_WaybarStatusResponse ==
    /\ [][\A c \in Conns :
            /\ (pc[c] = "idle" /\ pc'[c] = "status")
               => /\ UNCHANGED <<recording, paused, recordingFile, recordingPID,
                                 recordingStartTime, obsRecording, obsPaused,
                                 countdownRemaining>>
                  /\ ~HasIconsMap(request'[c]) => UNCHANGED icons
            /\ (pc[c] = "status" /\ pc'[c] = "done")
               => /\ result'[c] =
                        Marshal(WaybarStatusOf(countdownRemaining, recording, paused,
                                               recordingFile, recordingStartTime,
                                               obsRecording, obsPaused, icons, clock))
                  /\ UNCHANGED stateVars
            /\ (pc[c] = "done" /\ conn'[c] = "written")
               => /\ resp'[c].Success
                  /\ resp'[c].Message = result[c]
                  /\ UNCHANGED stateVars]_vars
    /\ [](\A c \in Conns :
            (pc[c] \in {"status", "done"} /\ HasIconsMap(request[c]))
            => \A f \in IconFields :
                  Is(IconsMapOf(request[c]), f, "string")
                  => icons[f] = Get(IconsMapOf(request[c]), f).text)

C17_Witness ==
    \E c \in Conns :
       /\ conn[c] = "written"
       /\ HasIconsMap(request[c])
       /\ Is(IconsMapOf(request[c]), "Idle", "string")
       /\ resp[c].Success
       /\ resp[c].Message =
             "{\"text\":\"\\u003cI\\u003e\",\"tooltip\":\"Ready for screenshot/recording\","
             \o "\"class\":\"idle\",\"alt\":\"idle\"}"

\* C18 as stated: after a waybar-status request with an icons map, each glyph
\* the map supplies is the one supplied and each glyph the map leaves out is
\* the one there was before the request.
C18_AbsentKeepsPrior ==
    [][\A c \in Conns :
          (pc[c] = "idle" /\ pc'[c] = "status" /\ HasIconsMap(request'[c]))
          => \A f \in IconFields :
                IF Is(IconsMapOf(request'[c]), f, "string")
                THEN icons'[f] = Get(IconsMapOf(request'[c]), f).text
                ELSE Has(IconsMapOf(request'[c]), f) \/ icons'[f] = icons[f]]_vars

\* C18, amended: after a waybar-status request with an icons map, each glyph
\* the map supplies as a string is the one supplied and every other glyph is
\* the default one, whatever an earlier request had set; a request without
\* an icons map leaves the icons as they were.
C18_AbsentTakesDefault ==
    [][\A c \in Conns :
          (pc[c] = "idle" /\ pc'[c] = "status")
          => IF HasIconsMap(request'[c])
             THEN \A f \in DOMAIN DefaultIcons :
                     icons'[f] = IF f \in IconFields /\ Is(IconsMapOf(request'[c]), f, "string")
                                 THEN Get(IconsMapOf(request'[c]), f).text
                                 ELSE DefaultIcons[f]
             ELSE UNCHANGED icons]_vars

\* A request whose icons map supplies the idle glyph and no recording glyph
\* has set the icons: the idle glyph is the one supplied, the recording
\* glyph the default one.
C18_Witness ==
    \E c \in Conns :
       /\ pc[c] = "status"
       /\ HasIconsMap(request[c])
       /\ Is(IconsMapOf(request[c]), "Idle", "string")
       /\ ~Has(IconsMapOf(request[c]), "Recording")
       /\ icons.Idle = "<I>"
       /\ icons.Recording = DefaultIcons.Recording
       /\ icons.Paused = DefaultIcons.Paused

\* The request whose options.icons is the partial map {Recording: "X"}
RecordingX == Req("waybar-status", << <<"icons", Obj(<< <<"Recording", Str("X")>> >>)>> >>)

\* C19: once a waybar-status request with the icons {Recording: "X"} has
\* set the icons, the status computed while recording and not paused has "X"
\* for its glyph, and the idle, paused, OBS recording and OBS paused glyphs
\* are the default ones.
C19_PartialOverride ==
    /\ [](\A c \in Conns :
            (pc[c] \in {"status", "done"} /\ request[c] = RecordingX)
            => /\ \A f \in IconFields \ {"Recording"} : icons[f] = DefaultIcons[f]
               /\ (recording /\ ~paused /\ countdownRemaining = 0)
                  => GetWaybarStatus.Text[1] = "X")
    /\ [][\A c \in Conns :
            (pc[c] = "status" /\ pc'[c] = "done" /\ request[c] = RecordingX
             /\ recording /\ ~paused /\ countdownRemaining = 0)
            => result'[c] =
                  Marshal(WaybarStatusOf(0, TRUE, FALSE, recordingFile, recordingStartTime,
                                         obsRecording, obsPaused,
                                         [DefaultIcons EXCEPT !.Recording = "X"], clock))]_vars

C19_Witness ==
    \E c \in Conns :
       /\ pc[c] = "done"
       /\ request[c] = RecordingX
       /\ recording /\ ~paused /\ countdownRemaining = 0
       /\ GetWaybarStatus.Text[1] = "X"
       /\ result[c] = Marshal(GetWaybarStatus)


\* Documents that are no Request: broken JSON, a string, an action that is
\* a number
MalformedDocs == {Malformed, Str("execute"), Obj(<< <<"action", Num(1)>> >>)}

\* C21: when the client has closed without sending, the daemon closes the
\* connection with no Response written and nothing dispatched; when what was
\* sent is no Request, it writes one Response, success false with the decode
\* error, dispatches nothing, changes neither the Shared State nor a file nor
\* a process, and closes the connection; no connection ever gets a second
\* Response.
C21_DecodeFailure ==
    /\ [][\A c \in Conns :
            /\ (conn[c] = "open" /\ pc[c] = "idle" /\ inbuf[c] = <<>> /\ conn'[c] # "open")
               => /\ conn'[c] = "closed"
                  /\ resp'[c] = NoResponse
                  /\ stats'[c] = NoStats
                  /\ UNCHANGED <<stateVars, fsVars, procVars, connVars>>
            /\ (conn[c] = "open" /\ pc[c] = "idle" /\ inbuf[c] # <<>>
                /\ Head(inbuf[c]) \in MalformedDocs /\ conn'[c] # "open")
               => /\ conn'[c] = "written"
                  /\ ~resp'[c].Success
                  /\ resp'[c].Message = "Invalid request: " \o DecodeError(Head(inbuf[c]))
                  /\ stats'[c] = [decoded |-> 0, dispatched |-> 0, written |-> 1]
                  /\ UNCHANGED <<stateVars, fsVars, procVars, connVars>>]_vars
    /\ [](\A c \in Conns :
            /\ stats[c].written <= 1
            /\ (conn[c] = "open" /\ inbuf[c] # <<>> /\ Head(inbuf[c]) \in MalformedDocs)
               => pc[c] = "idle")

C21_Witness ==
    \E c \in Conns :
       /\ conn[c] = "written"
       /\ resp[c] = [Success |-> FALSE, Message |-> "Invalid request: invalid character",
                     HasState |-> FALSE, State |-> NullState]
       /\ stats[c] = [decoded |-> 0, dispatched |-> 0, written |-> 1]
       /\ inbuf[c] # <<>>
       /\ recording


\* The step in which executeCommand is called with the Request just decoded
Dispatches(c) == stats'[c].dispatched = stats[c].dispatched + 1

TakesDelay == ScreenshotActions \cup StartActions \cup {"toggle-record"}
TakesUseCurrentScreen == {"current-screen-clipboard", "movie-screen", "toggle-record"}

\* The whole part of a JSON number of at most one digit before the point
Trunc(t) == CHOOSE n \in 0..9 : t \in {Itoa(n), Itoa(n) \o ".5"}

\* C26 as stated: the handler gets delay 0 when options.delay is absent or
\* no number and else the number supplied (as an int), useCurrentScreen false when
\* options.use_current_screen is absent or no boolean and else the boolean
\* supplied, and toggle-record gets "movie-selection" when
\* options.start_action is absent or no string and else the string supplied;
\* no other key changes what is passed, and the request is dispatched.
C26_OptionDefaults ==
    [][\A c \in Conns :
          (conn[c] = "open" /\ pc[c] = "idle" /\ inbuf[c] # <<>>
           /\ Head(inbuf[c]) \in {Encode(r) : r \in Requests}
           /\ inbuf'[c] # inbuf[c])
          => LET o == request'[c].Options
                 a == request'[c].Action
             IN  /\ Dispatches(c)
                 /\ a \in TakesDelay
                    => IF Has(o, "delay") /\ Get(o, "delay").kind = "number"
                       THEN args'[c].delay = Trunc(Get(o, "delay").text)
                       ELSE args'[c].delay = 0
                 /\ a \in TakesUseCurrentScreen
                    => args'[c].useCurrentScreen =
                          (Has(o, "use_current_screen")
                           /\ Get(o, "use_current_screen") = Bool(TRUE))
                 /\ a = "toggle-record"
                    => args'[c].startAction =
                          IF Has(o, "start_action") /\ Get(o, "start_action").kind = "string"
                          THEN Get(o, "start_action").text
                          ELSE "movie-selection"]_vars

\* C26, amended: as stated, but toggle-record gets "movie-selection" also
\* when options.start_action is the empty string; an action that takes no delay,
\* no useCurrentScreen or no startAction is passed none, and what the
\* handler counts down from and the start handler toggle-record calls are
\* the delay and the start action passed.
C26_OptionDefaultsTruncated ==
    [][\A c \in Conns :
          /\ (conn[c] = "open" /\ pc[c] = "idle" /\ inbuf[c] # <<>>
              /\ Head(inbuf[c]) \in {Encode(r) : r \in Requests}
              /\ inbuf'[c] # inbuf[c])
             => LET o == request'[c].Options
                    a == request'[c].Action
                IN  /\ Dispatches(c)
                    /\ args'[c].delay =
                          IF a \in TakesDelay /\ Has(o, "delay")
                             /\ Get(o, "delay").kind = "number"
                          THEN Trunc(Get(o, "delay").text)
                          ELSE 0
                    /\ args'[c].useCurrentScreen =
                          (a \in TakesUseCurrentScreen /\ Has(o, "use_current_screen")
                           /\ Get(o, "use_current_screen") = Bool(TRUE))
                    /\ args'[c].startAction =
                          IF a # "toggle-record" THEN ""
                          ELSE IF Has(o, "start_action")
                                  /\ Get(o, "start_action").kind = "string"
                                  /\ Get(o, "start_action").text # ""
                          THEN Get(o, "start_action").text
                          ELSE "movie-selection"
                    /\ pc'[c] = "countdown" => i'[c] = args'[c].delay
                    /\ pc'[c] \in {"start", "grim"} => args'[c].delay = 0
          /\ (pc[c] = "toggle" /\ pc'[c] # "toggle" /\ ~currentState[c].Recording)
             => /\ args[c].startAction \in StartActions => action'[c] = args[c].startAction
                /\ pc'[c] = "countdown" => i'[c] = args[c].delay
                /\ pc'[c] = "start" => args[c].delay = 0]_vars

\* toggle-record with an empty start_action has called MovieSelection.
C26_Witness ==
    \E c \in Conns :
       /\ request[c].Action = "toggle-record"
       /\ Is(request[c].Options, "start_action", "string")
       /\ Get(request[c].Options, "start_action").text = ""
       /\ args[c].startAction = "movie-selection"
       /\ action[c] = "movie-selection"
       /\ pc[c] = "start"


\* A step of the handler goroutine of connection c
StepOf(c) == pc'[c] # pc[c] \/ i'[c] # i[c]

\* C27: no step of a screenshot action, whether it ends well or not, changes
\* a field of the Shared State other than countdownRemaining, which it
\* changes only in sleepWithCountdown, where it is only with a delay above 0.
C27_ScreenshotFrame ==
    /\ [][\A c \in Conns :
            (StepOf(c) /\ (action[c] \in ScreenshotActions \/ action'[c] \in ScreenshotActions))
            => /\ UNCHANGED <<recording, paused, recordingFile, recordingPID,
                              recordingStartTime, obsRecording, obsPaused, icons>>
               /\ countdownRemaining' # countdownRemaining
                  => pc[c] = "countdown" /\ args[c].delay > 0]_vars
    /\ [](\A c \in Conns :
            (action[c] \in ScreenshotActions /\ pc[c] = "countdown") => args[c].delay > 0)

\* selection-file with a delay has captured, during a recording that is
\* still tracked.
C27_Witness ==
    \E c \in Conns :
       /\ action[c] = "selection-file"
       /\ pc[c] = "after"
       /\ args[c].delay = 1
       /\ recording /\ recordingPID # 0
       /\ countdownRemaining = 0


\* C28: when startRecording launches the recorder the cache file holds the
\* base name of the file the recorder writes, which is the file the state
\* then tracks; when the cache file cannot be written startRecording
\* returns the error with no recorder launched and no field of the Shared
\* State, no file and no process changed.
C28_CacheBeforeLaunch ==
    [][\A c \in Conns :
          /\ (pc[c] = "launch" /\ pc'[c] = "setrecording")
             => /\ cacheFile = base[c]
                /\ aviFiles' \subseteq aviFiles \cup {cacheFile}
          /\ (pc[c] = "setrecording" /\ pc'[c] # "setrecording")
             => recordingFile' = base[c] \o ".avi"
          /\ (pc[c] = "start" /\ pc'[c] = "done")
             => /\ result'[c] = "failed to write cache file"
                /\ UNCHANGED <<stateVars, fsVars, procVars>>]_vars


\* C29: when StopRecording has read the cache file and there is no raw file
\* of that name, it returns the not-found error in that step, which changes
\* no file (the cache file stays, nothing is converted) and no field of the
\* Shared State; the handler has made no call of SetRecording before.
C29_StopWithoutRawFile ==
    /\ [][\A c \in Conns :
            (pc[c] = "readcache" /\ pc'[c] # "readcache"
             /\ result'[c] # "failed to read cache file" /\ cacheFile \notin aviFiles)
            => /\ pc'[c] = "done"
               /\ result'[c] = "recording file not found"
               /\ cacheFile' = cacheFile /\ cacheFile # ""
               /\ UNCHANGED <<stateVars, fsVars>>]_vars
    /\ [][\A c \in Conns :
            (action[c] = "stop-recording" /\ pc[c] \in {"readcache", "convert"}
             /\ pc'[c] # pc[c])
            => UNCHANGED stateVars]_vars
    /\ [](\A c \in Conns : pc[c] = "convert" => base[c] \in aviFiles \/ ~alone[c])

\* StopRecording has returned the not-found error during a recording whose
\* raw file is not there; the cache file is still there.
C29_Witness ==
    \E c \in Conns :
       /\ action[c] = "stop-recording"
       /\ pc[c] = "done"
       /\ result[c] = "recording file not found"
       /\ cacheFile # "" /\ cacheFile \notin aviFiles
       /\ mp4Files = {}
       /\ pre[c].tracked.recording


\* C30: each round of sleepWithCountdown sets countdownRemaining to the
\* number of rounds left, from the delay down to 1, and once none is left
\* sets it to 0 and goes on to the capture or the recorder; nothing else
\* writes countdownRemaining, so a request without a delay never does; and
\* for a request served with no other in flight countdownRemaining is 0
\* until the first round, the number just set during the countdown, and 0
\* from the end of the countdown to the launch.
C30_CountdownSequence ==
    /\ [][\A c \in Conns :
            /\ (pc[c] = "countdown" /\ StepOf(c))
               => IF i[c] > 0
                  THEN countdownRemaining' = i[c] /\ i'[c] = i[c] - 1 /\ pc'[c] = "countdown"
                  ELSE countdownRemaining' = 0 /\ pc'[c] \in {"start", "grim"}
            /\ (pc[c] # "countdown" /\ pc'[c] = "countdown")
               => i'[c] \in 1..MaxDelay /\ UNCHANGED countdownRemaining]_vars
    /\ [][countdownRemaining' # countdownRemaining
          => \E c \in Conns : pc[c] = "countdown" /\ StepOf(c)]_vars
    /\ [](\A c \in Conns :
            alone[c]
            => /\ pc[c] = "countdown"
                  => \/ countdownRemaining = i[c] + 1
                     \/ countdownRemaining = 0 /\ i[c] > 0
               /\ pc[c] \in {"start", "launch", "setrecording", "grim"}
                  => countdownRemaining = 0)

\* The last round of the countdown of movie-screen, served alone, has run.
C30_Witness ==
    \E c \in Conns :
       /\ alone[c]
       /\ action[c] = "movie-screen"
       /\ pc[c] = "countdown"
       /\ i[c] = 0
       /\ countdownRemaining = 1

\* C23: no request outcome ends the accept loop.  While no signal has come
\* and nobody has called Stop, the context is live, the listener open and
\* the loop accepting, however many requests have failed; and a step that
\* ends the loop is never a step that answers a request.
C23_LoopSurvivesFailures ==
    /\ [](stop = "idle" =>
             /\ ctx = "live"
             /\ listener = "open"
             /\ socketFile
             /\ loop = "accepting"
             /\ cleanupRoutine = "running")
    /\ [][loop = "accepting" /\ loop' # loop => stop # "idle" /\ UNCHANGED <<conn, resp, failed>>]_vars

\* MaxFail requests have failed and the daemon, never stopped, has just
\* answered another one with success.
C23_Witness ==
    /\ failed = MaxFail
    /\ stop = "idle"
    /\ loop = "accepting"
    /\ \E c \in Conns : conn[c] = "written" /\ resp[c].Success

\* Stop has done all it does.
Stopped ==
    /\ ctx = "cancelled"
    /\ listener = "closed"
    /\ ~socketFile
    /\ loop \in {"returned", "exited"}
    /\ cleanupRoutine \in {"returned", "aborted"}

\* C24: once a signal has come (or Stop was called) the context is
\* cancelled, the listener closed, the socket file gone, the accept loop
\* returned nil and the cleanup goroutine ended, for good; the loop returns
\* only on the cancelled context, and no connection is accepted once the
\* listener is closed.
C24_Stop ==
    /\ stop # "idle" ~> Stopped
    /\ [][Stopped => Stopped']_vars
    /\ [][loop' # loop => ctx = "cancelled" /\ listener = "closed"]_vars
    /\ [][listener = "closed" =>
             \A c \in Conns : ~(conn[c] = "closed" /\ conn'[c] = "open")]_vars

\* Stop ran to its end after the daemon had served a request; Start has
\* returned and the cleanup goroutine too.
C24_Witness ==
    /\ Stopped
    /\ stop = "done"
    /\ loop = "returned"
    /\ cleanupRoutine = "returned"
    /\ failed > 0

\* C25 (as stated): stopping the daemon terminates no recorder a handler
\* has started.
C25_StopSparesRecorder ==
    \A p \in Pids : proc[p] # "killed"

\* The first connection is not over: it waits in the queue, its client has
\* sent nothing, or its handler has not returned.
Stuck == conn[1] \in {"dialed", "open"}

\* C22: a waybar-status request that arrives on the second connection is
\* accepted and answered, whatever the first connection does and however
\* long it stays where it is; and it can be accepted and answered while the
\* first connection stays as it is.
C22_StuckClientBlocksNobody ==
    /\ conn[2] = "dialed" ~> (conn[2] = "written" /\ resp[2].Success)
    /\ [](conn[2] = "dialed" => ENABLED StartAccept(2))

\* The status has been sent on the second connection while the handler of
\* the first is in its countdown.
C22_Witness ==
    /\ conn[2] = "written"
    /\ resp[2].Success
    /\ conn[1] = "open"
    /\ pc[1] = "countdown"
    /\ countdownRemaining > 0

\* C31 (as stated): when ToggleRecording goes on after the status query, a
\* text that contains "Recording: true" makes it issue the stop command
\* and, the command done, set (obsRecording, obsPaused) = (false, false);
\* any other text makes it issue the start command and set (true, false).
C31_ToggleByRecordingLine ==
    [][\A c \in Conns :
          (pc[c] \in {"obs-start", "obs-stop"} /\ pc'[c] = "done" /\ result'[c] = "ok")
          => IF Contains(status[c], "Recording: true")
             THEN pc[c] = "obs-stop" /\ ~obsRecording' /\ ~obsPaused'
             ELSE pc[c] = "obs-start" /\ obsRecording' /\ ~obsPaused']_vars

\* A step of a handler serving obs-toggle-pause.
PauseToggles(c) == StepOf(c) /\ "obs-toggle-pause" \in {action[c], action'[c]}

LocalFields ==
    <<recording, paused, recordingFile, recordingPID, recordingStartTime,
      countdownRemaining, icons>>

\* C39 (as stated): TogglePause leaves obsRecording and the local recording
\* fields as they are on every path, and obsPaused too when an OBS call
\* fails.
C39_PauseTogglesPausedOnly ==
    [][\A c \in Conns :
          PauseToggles(c) =>
             /\ UNCHANGED <<obsRecording, LocalFields>>
             /\ result'[c] # "ok" => UNCHANGED obsPaused]_vars

\* C39 (amended): TogglePause leaves the local recording fields as they are;
\* when both OBS calls succeed it sets obsRecording to true and obsPaused to
\* whether the status text contains "Paused: true"; on every other path
\* obsRecording and obsPaused are unchanged.
C39_PauseSetsRecording ==
    [][\A c \in Conns :
          PauseToggles(c) =>
             /\ UNCHANGED LocalFields
             /\ IF pc[c] = "obs-setpaused"
                THEN /\ result'[c] = "ok"
                     /\ obsRecording'
                     /\ obsPaused' = Contains(status[c], "Paused: true")
                ELSE /\ UNCHANGED <<obsRecording, obsPaused>>
                     /\ pc'[c] = "done" => result'[c] # "ok"]_vars

\* TogglePause has returned success with a status text that says the
\* recording is paused: the state says OBS records, paused.
C39_Witness ==
    \E c \in Conns :
        /\ action[c] = "obs-toggle-pause"
        /\ pc[c] = "done"
        /\ result[c] = "ok"
        /\ obsRecording /\ obsPaused

\* C32 (as stated): when the watcher of one recorder sees it exit while the
\* state holds the file and PID of another recorder that is still running,
\* it leaves recording, the file and the PID as they are.
C32_WatcherOwnRecording ==
    [][\A p \in Pids :
          (/\ watcher[p] = "waiting" /\ watcher'[p] = "done"
           /\ recording
           /\ recordingPID \in Pids \ {p}
           /\ proc[recordingPID] = "running")
          => /\ recording'
             /\ recordingPID' = recordingPID
             /\ recordingFile' = recordingFile]_vars

\* The state holds a recorder that runs and that it did not hold when the
\* StopRecording of connection c was called, and there was no cache file
\* then: the startRecording that wrote the cache file and launched this
\* recorder began after that Stop did.
NewerRecording(c) ==
    /\ action[c] = "stop-recording"
    /\ recording
    /\ recordingPID \in Pids
    /\ proc[recordingPID] = "running"
    /\ pre[c].tracked.recordingPID # recordingPID
    /\ pre[c].cacheFile = ""

\* C33 (as stated): a StopRecording call that goes on while the state holds
\* a newer recording neither clears the state nor deletes the cache file
\* that holds the newer base name.
C33_StopSparesNewer ==
    [][\A c \in Conns :
          (NewerRecording(c) /\ StepOf(c))
          => /\ recording'
             /\ recordingPID' = recordingPID
             /\ recordingFile' = recordingFile
             /\ cacheFile \o ".avi" = recordingFile => cacheFile' = cacheFile]_vars

\* The first recording of the run is on: its recorder runs and is the one
\* the state holds, no other recorder was ever launched.
FirstRecording(p) ==
    /\ proc[p] = "running"
    /\ \A q \in Pids \ {p} : proc[q] = "none"
    /\ recording
    /\ recordingPID = p

Pausing == {c \in Conns : InFlight(c) /\ action[c] = "pause-recording"}

\* C34 (as stated): during one recording, whenever no PauseRecording call
\* is in flight, the paused flag says what the toggle signals delivered to
\* the recorder have made of it: paused iff their number is odd.
C34_PausedMatchesSignals ==
    \A p \in Pids :
        (FirstRecording(p) /\ Pausing = {}) => paused = procPaused[p]

\* C35 (as stated): the paused flag is set only while a recording is
\* tracked.
C35_PausedOnlyWhileRecording == paused => recording

\* The statuses that go with a State snapshot: what GetWaybarStatus gives
\* when the fields sent in the snapshot are as the snapshot says, whatever
\* the countdown is.
StatusesOf(st) ==
    {Marshal(WaybarStatusOf(cd, st.Recording, st.Paused, st.RecordingFile, clock,
                            st.OBSRecording, st.OBSPaused, icons, clock)) :
        cd \in 0..MaxDelay}

\* C36 (as stated): in every waybar-status Response the status in the
\* message is one that goes with the State sent along: both were read at
\* one instant of the Shared State.
C36_StatusAndStateSameInstant ==
    \A c \in Conns :
        (conn[c] = "written" /\ request[c].Action = "waybar-status")
        => resp[c].Message \in StatusesOf(resp[c].State)

Listening == {d \in Daemons : daemon[d] = "listening"}

\* C37 (as stated): however the client invocations that auto-start the
\* daemon interleave, at most one daemon listens, and no Start unlinks the
\* socket file of a daemon that listens.
C37_OneDaemonServes ==
    /\ [](Cardinality(Listening) <= 1)
    /\ [][isDaemonRunning => path' = path]_vars

Counting == {c \in Conns : pc[c] = "countdown"}

\* C38: when no handler is in its countdown the countdown is 0, and only a
\* handler in its countdown changes it: once every delayed request in
\* flight has finished counting it is 0 and stays 0 until another begins.
\* Whatever the interleaving of the countdowns, a countdown above 0 comes
\* back to 0.
C38_CountdownSettles ==
    /\ [](Counting = {} => countdownRemaining = 0)
    /\ [][countdownRemaining' # countdownRemaining
            => \E c \in Counting : StepOf(c)]_vars
    /\ countdownRemaining > 0 ~> countdownRemaining = 0

\* Two delayed requests are in flight at once; both have finished counting
\* and neither has returned: the countdown is 0.
C38_Witness ==
    /\ pc[1] = "grim"
    /\ pc[2] = "start"
    /\ countdownRemaining = 0

====
